---- MODULE Spec2Model ----
(***************************************************************************)
(* Structural classification and section segmentation of paginated legal   *)
(* documents: the hardened segmenter LegalChunker (line-debugger.py) and   *)
(* the basic segmenter LegalDocumentChunker (chunker.py).                  *)
(*                                                                         *)
(* Text is modelled as TLA+ strings over ASCII; a character is a string of *)
(* length one.  Python's None is the empty tuple.                          *)
(***************************************************************************)
EXTENDS Integers, Sequences, FiniteSets, TLC

None == <<>>

(***************************************************************************)
(* Characters and the str methods the code uses                            *)
(***************************************************************************)
UpperStr == "ABCDEFGHIJKLMNOPQRSTUVWXYZ"
LowerStr == "abcdefghijklmnopqrstuvwxyz"
DigitStr == "0123456789"

At(s, i) == SubSeq(s, i, i)
From(s, i) == SubSeq(s, i, Len(s))

Upper == {At(UpperStr, i) : i \in 1..Len(UpperStr)}
Lower == {At(LowerStr, i) : i \in 1..Len(LowerStr)}
Digit == {At(DigitStr, i) : i \in 1..Len(DigitStr)}
Letter == Upper \cup Lower
Space == {" ", "\n", "\t"}

\* Number of consecutive characters of s, from position i on, that lie in Class.
RECURSIVE RunLen(_, _, _)
RunLen(s, i, Class) ==
    IF i > Len(s) \/ At(s, i) \notin Class THEN 0
    ELSE 1 + RunLen(s, i + 1, Class)

\* str.lstrip(), str.rstrip(), str.strip()
RECURSIVE rstrip(_)
rstrip(s) ==
    IF Len(s) > 0 /\ At(s, Len(s)) \in Space
    THEN rstrip(SubSeq(s, 1, Len(s) - 1)) ELSE s

lstrip(s) == From(s, 1 + RunLen(s, 1, Space))

strip(s) == rstrip(lstrip(s))

\* str.rstrip('.')
RECURSIVE rstrip_dot(_)
rstrip_dot(s) ==
    IF Len(s) > 0 /\ At(s, Len(s)) = "."
    THEN rstrip_dot(SubSeq(s, 1, Len(s) - 1)) ELSE s

\* str.startswith(prefix)
startswith(s, prefix) ==
    Len(prefix) <= Len(s) /\ SubSeq(s, 1, Len(prefix)) = prefix

\* str.endswith(suffix)
endswith(s, suffix) ==
    Len(suffix) <= Len(s) /\ SubSeq(s, Len(s) - Len(suffix) + 1, Len(s)) = suffix

\* `needle in s`
Contains(s, needle) ==
    \E i \in 1..(Len(s) + 1) :
        i + Len(needle) - 1 <= Len(s) /\ SubSeq(s, i, i + Len(needle) - 1) = needle

\* str.split(): the whitespace-separated words of s
RECURSIVE split_words(_)
split_words(s) ==
    LET t == lstrip(s)
        RECURSIVE WordLen(_)
        WordLen(i) == IF i > Len(t) \/ At(t, i) \in Space THEN 0
                      ELSE 1 + WordLen(i + 1)
    IN  IF Len(t) = 0 THEN <<>>
        ELSE <<SubSeq(t, 1, WordLen(1))>> \o split_words(From(t, WordLen(1) + 1))

\* " ".join(parts), "\n".join(parts), ...
RECURSIVE join(_, _)
join(sep, parts) ==
    IF Len(parts) = 0 THEN ""
    ELSE IF Len(parts) = 1 THEN parts[1]
    ELSE parts[1] \o sep \o join(sep, Tail(parts))

\* int() of a string of decimal digits
RECURSIVE int(_)
int(s) ==
    IF Len(s) = 0 THEN 0
    ELSE 10 * int(SubSeq(s, 1, Len(s) - 1))
         + (CHOOSE d \in 0..9 : At(DigitStr, d + 1) = At(s, Len(s)))

\* re.sub(r'[A-Z]', '', s)
RECURSIVE strip_upper(_)
strip_upper(s) ==
    IF Len(s) = 0 THEN ""
    ELSE (IF At(s, 1) \in Upper THEN "" ELSE At(s, 1)) \o strip_upper(From(s, 2))

\* Number of consecutive characters of s, from position i on, outside Class.
RECURSIVE RunLenNot(_, _, _)
RunLenNot(s, i, Class) ==
    IF i > Len(s) \/ At(s, i) \in Class THEN 0
    ELSE 1 + RunLenNot(s, i + 1, Class)

(***************************************************************************)
(* Regular expressions.  A pattern is a sequence of steps, matched from a  *)
(* position of the text on.  Repetitions are greedy and are not re-entered *)
(* (no backtracking): in every pattern below the step after a repetition   *)
(* cannot start with a character of the repeated class, so Python's        *)
(* backtracking finds no other match.                                      *)
(***************************************************************************)
NoMatch == [ok |-> FALSE]

Lit(word) == [op |-> "lit", word |-> word]                \* the word itself
Keyword(word) == [op |-> "keyword", word |-> word]        \* ignoring case
Rep(class, lo, hi) == [op |-> "rep", class |-> class, lo |-> lo, hi |-> hi]
AtLeast(class, lo) == [op |-> "atleast", class |-> class, lo |-> lo]
Plus(class) == AtLeast(class, 1)
One(class) == Rep(class, 1, 1)
Opt(class) == Rep(class, 0, 1)
Group == [op |-> "group"]                                 \* ( or )

\* $ under re.MULTILINE at position i
AtLineEnd(s, i) == i = Len(s) + 1 \/ (i <= Len(s) /\ At(s, i) = "\n")


\* n repetitions are there: at least lo are needed, at most hi are taken
Taken(n, lo, hi) == IF n < lo THEN -1 ELSE IF n < hi THEN n ELSE hi

\* Number of characters the step takes at position p of s, -1 if it fails
Consumed(s, p, step) ==
    CASE step.op = "lit" -> IF /\ p + Len(step.word) - 1 <= Len(s)
                               /\ SubSeq(s, p, p + Len(step.word) - 1) = step.word
                            THEN Len(step.word) ELSE -1
      \* the word, written in lower case, occurs at position p, ignoring case
      [] step.op = "keyword" ->
             IF /\ p + Len(step.word) - 1 <= Len(s)
                /\ \A k \in 1..Len(step.word) :
                       \/ At(s, p + k - 1) = At(step.word, k)
                       \/ \E j \in 1..Len(UpperStr) :
                              /\ At(s, p + k - 1) = At(UpperStr, j)
                              /\ At(step.word, k) = At(LowerStr, j)
             THEN Len(step.word) ELSE -1
      [] step.op = "rep" -> Taken(RunLen(s, p, step.class), step.lo, step.hi)
      [] step.op = "atleast" -> Taken(RunLen(s, p, step.class), step.lo, Len(s))
      [] step.op = "repnot" -> Taken(RunLenNot(s, p, step.class), step.lo, step.hi)
      [] step.op = "plusnot" -> Taken(RunLenNot(s, p, step.class), 1, Len(s))
      [] step.op = "group" -> 0
      [] step.op = "$m" -> IF AtLineEnd(s, p) THEN 0 ELSE -1
      [] step.op = "$" -> \* $: the end of the text, or before its last newline
                          IF p = Len(s) + 1 \/ (p = Len(s) /\ At(s, p) = "\n") THEN 0 ELSE -1

RECURSIVE Run(_, _, _, _)
Run(s, p, pattern, marks) ==
    IF pattern = <<>> THEN [ok |-> TRUE, e |-> p, marks |-> marks]
    ELSE IF Consumed(s, p, Head(pattern)) < 0 THEN NoMatch
    ELSE Run(s, p + Consumed(s, p, Head(pattern)), Tail(pattern),
             IF Head(pattern).op = "group" THEN Append(marks, p) ELSE marks)

\* The groups of a run: g1 and g2 are the texts of the first and the second
\* group, b2 is the start of the second and e the end of the match.
Groups(s, r) ==
    IF ~r.ok THEN NoMatch
    ELSE [ok |-> TRUE, e |-> r.e,
          g1 |-> SubSeq(s, r.marks[1], r.marks[2] - 1),
          b2 |-> IF Len(r.marks) >= 3 THEN r.marks[3] ELSE r.e,
          g2 |-> IF Len(r.marks) >= 4 THEN SubSeq(s, r.marks[3], r.marks[4] - 1) ELSE ""]

\* pattern.match(s) when the pattern starts with ^, and a match at position i
MatchAt(s, i, pattern) == Groups(s, Run(s, i, pattern, <<>>))
Match(s, pattern) == MatchAt(s, 1, pattern)

\* the least element of a non-empty set of numbers
Least(I) == CHOOSE i \in I : \A j \in I : i <= j

\* pattern.search(s): the leftmost match
Search(s, pattern) ==
    IF \A i \in 1..Len(s) : ~Run(s, i, pattern, <<>>).ok THEN NoMatch
    ELSE MatchAt(s, Least({i \in 1..Len(s) : Run(s, i, pattern, <<>>).ok}), pattern)

\* re.search of a pattern that starts with ^, under re.MULTILINE: ^ matches at
\* the start of the text and after each newline
SearchLines(s, pattern) ==
    \E i \in 1..Len(s) : /\ (i = 1 \/ At(s, i - 1) = "\n")
                         /\ Run(s, i, pattern, <<>>).ok

(***************************************************************************)
(* StructureDetector of line-debugger.py (the validated classifier)        *)
(***************************************************************************)
\* [IVXLC\d] under re.IGNORECASE
RomanOrDigit == Digit \cup {"I", "V", "X", "L", "C", "i", "v", "x", "l", "c"}

\* <Keyword>\s+([IVXLC\d]+[A-Z]?)[\s.:-]+([A-Z][^\n]{10,150})  re.IGNORECASE
\* (the two dash characters outside ASCII are not in the alphabet)
HeadingPattern(keyword, NumClass) ==
    <<Keyword(keyword), Plus(Space),
      Group, Plus(NumClass), Opt(Letter), Group,
      Plus(Space \cup {".", ":", "-"}),
      Group, One(Letter), [op |-> "repnot", class |-> {"\n"}, lo |-> 10, hi |-> 150], Group>>

CHAPTER == HeadingPattern("chapter", RomanOrDigit)
PART == HeadingPattern("part", RomanOrDigit)
DIVISION == HeadingPattern("division", Digit)

\* ^(\d+[A-Z]?)\.\s{1,3}([A-Z][A-Za-z\s]{3,80})\.$
SECTION_CONSTITUTION ==
    <<Group, Plus(Digit), Opt(Upper), Group,
      Lit("."), Rep(Space, 1, 3),
      Group, One(Upper), Rep(Letter \cup Space, 3, 80), Group,
      Lit("."), [op |-> "$m"]>>                \* $ under re.MULTILINE

\* End of j repetitions of (?:\s+[a-z]+) from position e on, 0 when fewer match
RECURSIVE WordsEnd(_, _, _)
WordsEnd(s, e, j) ==
    IF j = 0 \/ e = 0 THEN e
    ELSE WordsEnd(s, IF Run(s, e, <<Plus(Space), Plus(Lower)>>, <<>>).ok
                     THEN Run(s, e, <<Plus(Space), Plus(Lower)>>, <<>>).e ELSE 0,
                  j - 1)

\* ^(\d+[A-Z]?)\s+([A-Z][a-z]{3,}   up to the repetition of words
SECTION_CODE_head ==
    <<Group, Plus(Digit), Opt(Upper), Group,
      Plus(Space),
      Group, One(Upper), AtLeast(Lower, 3)>>

\* The greedy repetition (?:\s+[a-z]+){0,10} gives words back until the
\* lookahead holds: J holds the numbers of words after which it holds.
CodeTitle(s, m, J) ==
    IF J = {} THEN NoMatch
    ELSE [ok |-> TRUE, g1 |-> m.g1,
          g2 |-> SubSeq(s, m.b2, WordsEnd(s, m.e, CHOOSE j \in J : \A k \in J : j >= k) - 1)]

CodeWords(s, m) ==
    IF ~m.ok THEN NoMatch
    ELSE CodeTitle(s, m, {j \in 0..10 : /\ WordsEnd(s, m.e, j) # 0
                                        \* the lookahead (?=\s+[A-Z(]|\s*$)
                                        /\ \/ Run(s, WordsEnd(s, m.e, j),
                                                  <<Plus(Space), One(Upper \cup {"("})>>,
                                                  <<>>).ok
                                           \/ \E k \in 0..RunLen(s, WordsEnd(s, m.e, j), Space) :
                                                  AtLineEnd(s, WordsEnd(s, m.e, j) + k)})

\* SECTION_CODE.match(s):
\*   ^(\d+[A-Z]?)\s+([A-Z][a-z]{3,}(?:\s+[a-z]+){0,10})(?=\s+[A-Z(]|\s*$)
SECTION_CODE(s) == CodeWords(s, Match(s, SECTION_CODE_head))

\* ^\s*\(([0-9]+|[a-z]+)\)\s+  with either alternative
SUBSECTION(class) ==
    <<AtLeast(Space, 0), Lit("("), Group, Plus(class), Group, Lit(")"),
      Plus(Space)>>

\* reject_words, were the months not among them
reject_words_no_months ==
    {"Page", "Compilation", "Contents", "Registered", "Volume", "Schedule",
     "Includes"}

reject_words ==
    {"Page", "January", "February", "March", "April", "May", "June", "July",
     "August", "September", "October", "November", "December", "Compilation",
     "Contents", "Registered", "Volume", "Schedule", "Includes"}

\* The validation of a match of the Code pattern
CodeAccepted(number, title, words) ==
    /\ (IF Len(words) > 0 THEN words[1] ELSE "") \notin reject_words
    /\ Len(title) >= 8
    /\ 1 <= int(strip_upper(number)) /\ int(strip_upper(number)) <= 10000
    /\ (Len(words) >= 2 \/ Len(title) >= 12)

\* section_match: the Constitution pattern first, then the Code pattern
SectionMatch(mc, mk) ==
    IF mc.ok THEN [number |-> mc.g1, title |-> strip(mc.g2)]
    ELSE IF mk.ok /\ CodeAccepted(mk.g1, strip(mk.g2), split_words(strip(mk.g2)))
    THEN [number |-> mk.g1, title |-> strip(mk.g2)]
    ELSE None

\* section_match, were the Code pattern taken without its lookahead and
\* without the validation of its title
section_match_unvalidated(text) ==
    IF Match(text, SECTION_CONSTITUTION).ok
    THEN SectionMatch(Match(text, SECTION_CONSTITUTION), NoMatch)
    ELSE IF Match(text, SECTION_CODE_head).ok
    THEN [number |-> Match(text, SECTION_CODE_head).g1,
          title |-> strip(Match(text, SECTION_CODE_head).g2)]
    ELSE None

section_match(text) == SectionMatch(Match(text, SECTION_CONSTITUTION), SECTION_CODE(text))

\* title = m.group(2).strip().rstrip('.')
HeadingTitle(m) == rstrip_dot(strip(m.g2))

\* if m := pattern.search(text): if len(title) > 10: return kind, {number, title}
Heading(kind, m, otherwise) ==
    IF m.ok /\ Len(HeadingTitle(m)) > 10
    THEN [kind |-> kind, meta |-> [number |-> strip(m.g1), title |-> HeadingTitle(m)]]
    ELSE otherwise

\* if section_match: return "section", {number, title}
Section(sm, otherwise) ==
    IF sm # None THEN [kind |-> "section", meta |-> sm] ELSE otherwise

\* if cls.SUBSECTION.match(text): return "subsection", {number}
Subsection(md, ml) ==
    IF md.ok THEN [kind |-> "subsection", meta |-> [number |-> md.g1]]
    ELSE IF ml.ok THEN [kind |-> "subsection", meta |-> [number |-> ml.g1]]
    ELSE [kind |-> "text", meta |-> None]

\* StructureDetector.detect(text, doc_type)
detect(text, doc_type) ==
    IF Len(strip(text)) < 5 THEN [kind |-> "text", meta |-> None]
    ELSE Heading("chapter", Search(strip(text), CHAPTER),
         Heading("part", Search(strip(text), PART),
         Heading("division", Search(strip(text), DIVISION),
         Section(section_match(strip(text)),
         Subsection(Match(strip(text), SUBSECTION(Digit)),
                    Match(strip(text), SUBSECTION(Lower)))))))

(***************************************************************************)
(* LegalChunker of line-debugger.py (the hardened segmenter): helpers      *)
(***************************************************************************)
\* str.split(sep) for a one-character sep
RECURSIVE split_on(_, _)
split_on(text, sep) ==
    LET n == RunLenNot(text, 1, {sep})
    IN  IF n = Len(text) THEN <<text>>
        ELSE <<SubSeq(text, 1, n)>> \o split_on(From(text, n + 2), sep)

\* [strip(p) for p in parts if strip(p)]
RECURSIVE strip_nonempty(_)
strip_nonempty(parts) ==
    IF Len(parts) = 0 THEN <<>>
    ELSE (IF strip(parts[1]) = "" THEN <<>> ELSE <<strip(parts[1])>>)
         \o strip_nonempty(Tail(parts))

\* re.split(r'(?<=[.?!])\s+(?=[A-Z0-9(])', text)
RECURSIVE sentence_split(_)
sentence_split(text) ==
    LET I == {i \in 2..Len(text) :
                /\ At(text, i - 1) \in {".", "?", "!"}
                /\ RunLen(text, i, Space) >= 1
                /\ i + RunLen(text, i, Space) <= Len(text)
                /\ At(text, i + RunLen(text, i, Space)) \in Upper \cup Digit \cup {"("}}
        i == CHOOSE k \in I : \A j \in I : k <= j
    IN  IF I = {} THEN <<text>>
        ELSE <<SubSeq(text, 1, i - 1)>>
             \o sentence_split(From(text, i + RunLen(text, i, Space)))

\* The loop over re.split(r'(\.\s+)', line) of a line longer than 300
\* characters: pieces are accumulated in current and emitted at a separator
\* once more than 50 characters are gathered.
RECURSIVE long_line_split(_, _)
long_line_split(line, current) ==
    LET I == {i \in 1..Len(line) : At(line, i) = "." /\ RunLen(line, i + 1, Space) >= 1}
        i == CHOOSE k \in I : \A j \in I : k <= j
        e == i + RunLen(line, i + 1, Space)
        cur == current \o SubSeq(line, 1, e)
    IN  IF I = {}
        THEN (IF strip(current \o line) = "" THEN <<>> ELSE <<strip(current \o line)>>)
        ELSE IF Len(strip(cur)) > 50
        THEN <<strip(cur)>> \o long_line_split(From(line, e + 1), "")
        ELSE long_line_split(From(line, e + 1), cur)

RECURSIVE split_raw_lines(_)
split_raw_lines(raw_lines) ==
    LET line == strip(raw_lines[1])
    IN  IF Len(raw_lines) = 0 THEN <<>>
        ELSE (IF line = "" THEN <<>>
              ELSE IF Len(line) > 300 /\ Contains(line, ". ")
              THEN long_line_split(line, "")
              ELSE <<line>>)
             \o split_raw_lines(Tail(raw_lines))

\* LegalChunker._split_text
_split_text(text) ==
    IF Contains(text, "\n")
    THEN split_raw_lines(split_on(text, "\n"))
    ELSE strip_nonempty(sentence_split(text))

\* The breadcrumb entry of one context slot
Crumb(kind, slot) ==
    IF slot # None /\ slot.number # ""
    THEN <<kind \o " " \o slot.number
           \o (IF slot.title # "" THEN ": " \o slot.title ELSE "")>>
    ELSE <<>>

\* "None" stands for the None of a str field (JSON null)
SlotNumber(slot) == IF slot # None THEN slot.number ELSE "None"

\* LegalChunker._create_chunk
_create_chunk(section, buffer, chapter, part, division) ==
    LET breadcrumb == Crumb("Chapter", chapter) \o Crumb("Part", part)
                      \o Crumb("Division", division)
        text == join(" ", buffer)
        section_header_variants ==
            <<section.number \o ".  " \o section.title \o ".",
              section.number \o ". " \o section.title \o ".",
              section.number \o " " \o section.title>>
        V == {k \in 1..3 : startswith(text, section_header_variants[k])}
        variant == section_header_variants[CHOOSE k \in V : \A j \in V : k <= j]
    IN  [chunk_id |-> "section_" \o section.number,
         section_number |-> section.number,
         section_title |-> section.title,
         breadcrumb |-> join(" > ", breadcrumb),
         text |-> IF V = {} THEN text ELSE strip(From(text, Len(variant) + 1)),
         metadata |-> [page_start |-> section.page_start,
                       chapter |-> SlotNumber(chapter),
                       part |-> SlotNumber(part),
                       division |-> SlotNumber(division),
                       jurisdiction |-> "Queensland",
                       document_type |-> "legislation"]]

(***************************************************************************)
(* StructureDetector of chunker.py (the basic classifier)                  *)
(***************************************************************************)
\* ^Chapter\s+(\d+[A-Z]?)\s+(.+?)$  re.IGNORECASE; the text matched is stripped,
\* so the lazy .+? runs to the end of the text
CHAPTER_PATTERN ==
    <<Keyword("chapter"), Plus(Space), Group, Plus(Digit), Opt(Letter), Group,
      Plus(Space), Group, [op |-> "plusnot", class |-> {"\n"}], Group, [op |-> "$"]>>

PART_PATTERN ==
    <<Keyword("part"), Plus(Space), Group, Plus(Digit), Opt(Letter), Group,
      Plus(Space), Group, [op |-> "plusnot", class |-> {"\n"}], Group, [op |-> "$"]>>

\* ^Division\s+(\d+)\s+(.+?)$  re.IGNORECASE
DIVISION_PATTERN ==
    <<Keyword("division"), Plus(Space), Group, Plus(Digit), Group,
      Plus(Space), Group, [op |-> "plusnot", class |-> {"\n"}], Group, [op |-> "$"]>>

\* The lazy .+? ends at the first position of E, the positions after which
\* the rest of the pattern matches.
SectionTitle(s, m, E) ==
    IF E = {} THEN NoMatch
    ELSE [ok |-> TRUE, g1 |-> m.g1, g2 |-> SubSeq(s, m.b2, Least(E) - 1)]

SectionRest(s, m) ==
    IF ~m.ok THEN NoMatch
    ELSE SectionTitle(s, m, {e \in (m.e + 1)..(m.e + RunLenNot(s, m.e, {"\n"})) :
                                 \* (?:\s+\d+)?$ matches the rest of s from e on
                                 \/ e = Len(s) + 1 \/ (e = Len(s) /\ At(s, e) = "\n")
                                 \/ Run(s, e, <<Plus(Space), Plus(Digit), [op |-> "$"]>>,
                                        <<>>).ok})

\* SECTION_PATTERN.match(s):  ^(\d+[A-Z]?)\s+([A-Z].+?)(?:\s+\d+)?$
SECTION_PATTERN(s) ==
    SectionRest(s, Match(s, <<Group, Plus(Digit), Opt(Upper), Group, Plus(Space),
                              Group, One(Upper)>>))

\* ^\(([0-9a-z]+)\)
SUBSECTION_PATTERN == <<Lit("("), Group, Plus(Digit \cup Lower), Group, Lit(")")>>

\* match = pattern.match(text); if match: return (kind, {number, title})
Structure(kind, m, otherwise) ==
    IF m.ok THEN [kind |-> kind, meta |-> [number |-> m.g1, title |-> strip(m.g2)]]
    ELSE otherwise

\* StructureDetector.detect_structure_type(text)
detect_structure_type(text) ==
    Structure("chapter", Match(strip(text), CHAPTER_PATTERN),
    Structure("part", Match(strip(text), PART_PATTERN),
    Structure("division", Match(strip(text), DIVISION_PATTERN),
    Structure("section", SECTION_PATTERN(strip(text)),
    IF Match(strip(text), SUBSECTION_PATTERN).ok
    THEN [kind |-> "subsection",
          meta |-> [number |-> Match(strip(text), SUBSECTION_PATTERN).g1]]
    ELSE [kind |-> "text", meta |-> None]))))

(***************************************************************************)
(* LegalDocumentChunker of chunker.py (the basic segmenter): helpers       *)
(***************************************************************************)
\* re.split(r'(?<=[.!?])\s+|\n', text)
RECURSIVE sentence_or_newline_split(_)
sentence_or_newline_split(text) ==
    LET I == {i \in 1..Len(text) :
                \/ i > 1 /\ At(text, i - 1) \in {".", "!", "?"} /\ At(text, i) \in Space
                \/ At(text, i) = "\n"}
        i == CHOOSE k \in I : \A j \in I : k <= j
        n == IF i > 1 /\ At(text, i - 1) \in {".", "!", "?"}
             THEN RunLen(text, i, Space) ELSE 1
    IN  IF I = {} THEN <<text>>
        ELSE <<SubSeq(text, 1, i - 1)>> \o sentence_or_newline_split(From(text, i + n))

\* LegalDocumentChunker._split_into_lines
_split_into_lines(text) == strip_nonempty(sentence_or_newline_split(text))

BasicCrumb(kind, slot) ==
    IF slot # None THEN <<kind \o " " \o slot.number \o ": " \o slot.title>> ELSE <<>>

\* LegalDocumentChunker._create_chunk
basic_create_chunk(section, text_buffer, chapter, part, division) ==
    LET breadcrumb_parts == BasicCrumb("Chapter", chapter) \o BasicCrumb("Part", part)
                            \o BasicCrumb("Division", division)
    IN  [chunk_id |-> "section_" \o section.number,
         section_number |-> section.number,
         section_title |-> section.title,
         breadcrumb |-> join(" > ", breadcrumb_parts),
         text |-> join(" ", text_buffer),
         metadata |-> [page |-> section.page,
                       chapter |-> SlotNumber(chapter),
                       part |-> SlotNumber(part),
                       division |-> SlotNumber(division),
                       document_type |-> "legislation",
                       jurisdiction |-> "Queensland"]]

(***************************************************************************)
(* StructureDetector and LegalChunker of debug_structure.py (the flexible  *)
(* segmenter) and of test-chunker.py (the inline segmenter): helpers       *)
(***************************************************************************)
\* pattern.search(s) for a pattern that can only start at a position of I:
\* the leftmost match
SearchAmong(s, I, pattern) ==
    IF \A i \in I : ~Run(s, i, pattern, <<>>).ok THEN NoMatch
    ELSE MatchAt(s, Least({i \in I : Run(s, i, pattern, <<>>).ok}), pattern)

\* StructureDetector.detect(text) of debug_structure.py
debug_detect(text) ==
    LET s == strip(text)
        \* (?:^|\s): the keyword starts the text or a line, or follows white space
        I == {i \in 1..Len(s) : i = 1 \/ At(s, i - 1) \in Space}
        \* <Keyword>\s+(<number>[A-Z]?)[\s.:-]*(.+)?  re.IGNORECASE | re.MULTILINE
        \* (the dash outside ASCII is not in the alphabet)
        heading(keyword, NumClass) ==
            <<Keyword(keyword), Plus(Space),
              Group, Plus(NumClass), Opt(Letter), Group,
              AtLeast(Space \cup {".", ":", "-"}, 0),
              Group, [op |-> "repnot", class |-> {"\n"}, lo |-> 0, hi |-> Len(s)], Group>>
        \* SECTION_HEADER: ^(\d+[A-Z]?)\s+([A-Z]  up to the repetition
        h == Match(s, <<Group, Plus(Digit), Opt(Upper), Group, Plus(Space),
                        Group, One(Upper)>>)
        \* [A-Za-z\s,\-()]{3,120}(?:\s|$): the lengths the repetition can have
        N == IF ~h.ok THEN {}
             ELSE {n \in 3..120 :
                     /\ n <= RunLen(s, h.e, Letter \cup Space \cup {",", "-", "(", ")"})
                     /\ \/ h.e + n = Len(s) + 1
                        \/ h.e + n <= Len(s) /\ At(s, h.e + n) \in Space}
        \* SUBSECTION: ^\s*\(([0-9a-z]+)\)
        sub == Match(s, <<AtLeast(Space, 0), Lit("("), Group, Plus(Digit \cup Lower),
                          Group, Lit(")")>>)
    IN  IF s = "" THEN [kind |-> "text", meta |-> None]
        ELSE Structure("chapter", SearchAmong(s, I, heading("chapter", RomanOrDigit)),
             Structure("part", SearchAmong(s, I, heading("part", RomanOrDigit)),
             Structure("division", SearchAmong(s, I, heading("division", Digit)),
             IF N # {}
             THEN [kind |-> "section",
                   meta |-> [number |-> h.g1,
                             title |-> strip(SubSeq(s, h.b2,
                                 h.e + (CHOOSE n \in N : \A k \in N : n >= k) - 1))]]
             ELSE IF sub.ok THEN [kind |-> "subsection", meta |-> [number |-> sub.g1]]
             ELSE [kind |-> "text", meta |-> None])))

\* StructureDetector.detect(text) of test-chunker.py
inline_detect(text) ==
    LET s == strip(text)
        \* \b before the keyword
        I == {i \in 1..Len(s) : i = 1 \/ At(s, i - 1) \notin Letter \cup Digit \cup {"_"}}
        \* \b<Keyword>\s+(<number>)\.?\s*(.+)?  re.IGNORECASE
        heading(keyword, NumClass) ==
            <<Keyword(keyword), Plus(Space),
              Group, Plus(NumClass), Group,
              Opt({"."}), AtLeast(Space, 0),
              Group, [op |-> "repnot", class |-> {"\n"}, lo |-> 0, hi |-> Len(s)], Group>>
        \* SECTION_HEADER: ^\s*(\d+[A-Z]?)\s+([A-Z][A-Za-z ,\-()]{3,100})
        sec == Match(s, <<AtLeast(Space, 0), Group, Plus(Digit), Opt(Upper), Group,
                          Plus(Space), Group, One(Upper),
                          Rep(Letter \cup {" ", ",", "-", "(", ")"}, 3, 100), Group>>)
        \* SUBSECTION: ^\(([0-9a-z]+)\)
        sub == Match(s, <<Lit("("), Group, Plus(Digit \cup Lower), Group, Lit(")")>>)
    IN  IF s = "" THEN [kind |-> "text", meta |-> None]
        ELSE Structure("chapter", SearchAmong(s, I, heading("chapter", RomanOrDigit)),
             Structure("part", SearchAmong(s, I, heading("part", RomanOrDigit)),
             Structure("division", SearchAmong(s, I, heading("division", Digit)),
             Structure("section", sec,
             IF sub.ok THEN [kind |-> "subsection", meta |-> [number |-> sub.g1]]
             ELSE [kind |-> "text", meta |-> None]))))

\* re.split(r'(?<=[<Behind>])\s+(?=[<Ahead>])', text), with the alternative |\n+
\* when Newlines
RECURSIVE re_split(_, _, _, _)
re_split(text, Behind, Ahead, Newlines) ==
    LET Sentence(i) ==
            /\ i > 1 /\ At(text, i - 1) \in Behind
            /\ RunLen(text, i, Space) >= 1
            /\ i + RunLen(text, i, Space) <= Len(text)
            /\ At(text, i + RunLen(text, i, Space)) \in Ahead
        I == {i \in 1..Len(text) : Sentence(i) \/ (Newlines /\ At(text, i) = "\n")}
        i == Least(I)
        n == IF Sentence(i) THEN RunLen(text, i, Space) ELSE RunLen(text, i, {"\n"})
    IN  IF I = {} THEN <<text>>
        ELSE <<SubSeq(text, 1, i - 1)>>
             \o re_split(From(text, i + n), Behind, Ahead, Newlines)

\* LegalChunker._split_text(text) of debug_structure.py
debug_split_text(text) ==
    IF Contains(text, "\n") /\ strip_nonempty(split_on(text, "\n")) # <<>>
    THEN strip_nonempty(split_on(text, "\n"))
    ELSE strip_nonempty(re_split(text, {".", ";", ":"}, Upper \cup Digit \cup {"("}, FALSE))

\* LegalChunker._split(text) of test-chunker.py
_split(text) == strip_nonempty(re_split(text, {".", ";"}, Upper \cup {"("}, TRUE))

\* LegalChunker._create_chunk of debug_structure.py
debug_create_chunk(section, buffer_, chapter, part, division) ==
    [chunk_id |-> "section_" \o section.number,
     section_number |-> section.number,
     section_title |-> section.title,
     breadcrumb |-> join(" > ", Crumb("Chapter", chapter) \o Crumb("Part", part)
                                \o Crumb("Division", division)),
     text |-> join(" ", buffer_),
     metadata |-> [page_start |-> section.page_start,
                   chapter |-> SlotNumber(chapter),
                   part |-> SlotNumber(part),
                   division |-> SlotNumber(division),
                   jurisdiction |-> "Queensland",
                   document_type |-> "legislation"]]

(***************************************************************************)
(* Inputs                                                                  *)
(***************************************************************************)
MaxPages == 3

\* Page texts: one line each, two pages of several lines, and a page of
\* running text without line breaks.
PageTexts ==
    {l \o "\n" : l \in
        {"Chapter 33 Offences against liberty",
         "Chapter 34 Robbery and extortion",
         "Part 6 Offences relating to property",
         "Division 1 Stealing and like offences",
         "354 Kidnapping for ransom",
         "353 Deprivation of liberty",
         "7. The Senate.",
         "A person who kidnaps another.",
         "(1) In this section"}}
    \cup {"Chapter 33 Offences against liberty\nPart 6 Offences relating to property\n354 Kidnapping for ransom\nA person who kidnaps another.\n",
          "7. The Senate.\n(1) In this section\n8. The House.\n",
          "354 Kidnapping for ransom. A person who kidnaps another."}

Pages == [page_number : {3, 4}, text : PageTexts]

\* A document given in advance has at most MaxGiven pages
MaxGiven == 2

\* The pages of the documents given in advance
GivenPages ==
    {[page_number |-> 2, text |-> "7. The Senate.\n"],
     [page_number |-> 3, text |-> "7. The Senate.\n"],
     [page_number |-> 4, text |-> "7. The Senate.\n(1) In this section\n8. The House.\n"],
     [page_number |-> 4,
      text |-> "Chapter 33 Offences against liberty\nPart 6 Offences relating to property\n354 Kidnapping for ransom\nA person who kidnaps another.\n"],
     [page_number |-> 4, text |-> "Division 1 Stealing and like offences\n"],
     [page_number |-> 4, text |-> "0. Short title.\n354 Kidnapping for ransom\n"],
     [page_number |-> 3, text |-> "A person who kidnaps another.\n"],
     [page_number |-> 1, text |-> "354 Kidnapping\nA person who unlawfully..."],
     [page_number |-> 3, text |-> "15 January 2026 Schedule 1 Amendment"],
     [page_number |-> 4, text |-> "15 January 2026 Schedule 1 Amendment"]}
    \cup
    \* a contents page: ten rows, each ending in a page number
    {[page_number |-> n,
      text |-> "Chapter 33 Offences against liberty 210\n"
               \o "354 Kidnapping for ransom 211\n"
               \o "355 Deprivation of liberty 212\n"
               \o "Part 6 Offences relating to property 213\n"
               \o "356 Stealing and like offences 214\n"
               \o "357 Robbery and extortion 215\n"
               \o "358 Burglary of a dwelling 216\n"
               \o "359 Unlawful use of vehicles 217\n"
               \o "360 Receiving tainted property 218\n"
               \o "361 Fraud and like offences 219\n"] : n \in {2, 5}}

\* A document of stray lines has at most MaxHint pages
MaxHint == 2

\* Lines that meet the patterns of several kinds, or of none: a page each
ProbePages ==
    [page_number : {4},
     text : {l \o "\n" : l \in
        {"7. Chapter II Of The Parliament.",
         "Chapter 3 Part 2 Of The Parliament",
         "Part 2 Division 1 Of The Parliament",
         "0. Short title.",
         "7. January sittings.",
         "15 January sittings of parliament",
         "the part 2 of this act applies now",
         "Part 2 Short",
         "7. The Senate.",
         "354 Kidnapping for ransom",
         "(1) In this section",
         "A person who kidnaps another.",
         "Division 1 Stealing and like offences",
         "(a)"}}]

Texts ==
    PageTexts \cup {page.text : page \in GivenPages \cup ProbePages}
    \cup {"Chapter 33 Offences against liberty\nPart 6 Offences relating to property\nDivision 1 Stealing and like offences\n354 Kidnapping for ransom\nA person who kidnaps another.\n"}

DocTypes == {"auto", "constitution", "code"}

Range(seq) == {seq[i] : i \in 1..Len(seq)}

\* The functions of the code applied to the inputs above, computed once.
SplitText == [t \in Texts |-> _split_text(t)]
\* The front-matter test of chunk: the pages numbered 3 or less whose first 500
\* characters hold no section-like line; they are skipped.
FrontMatter ==
    {page \in Pages \cup GivenPages :
        LET test_text == SubSeq(page.text, 1,
                                IF Len(page.text) > 500 THEN 500 ELSE Len(page.text))
        IN  /\ page.page_number <= 3
            \* re.search(r'^\d+\.\s{1,3}[A-Z][a-z]+', test_text, re.MULTILINE)
            /\ ~SearchLines(test_text, <<Plus(Digit), Lit("."), Rep(Space, 1, 3),
                                         One(Upper), Plus(Lower)>>)
            \* re.search(r'^\d+[A-Z]?\s+[A-Z][a-z]+\s+[A-Z(]', test_text, re.MULTILINE)
            /\ ~SearchLines(test_text, <<Plus(Digit), Opt(Upper), Plus(Space), One(Upper),
                                         Plus(Lower), Plus(Space), One(Upper \cup {"("})>>)}
\* Detected, were the section patterns tried before the heading patterns
Detected_section_first ==
    [l \in UNION {Range(SplitText[t]) : t \in Texts}, d \in DocTypes |->
        IF Len(strip(l)) >= 5 /\ section_match(strip(l)) # None
        THEN [kind |-> "section", meta |-> section_match(strip(l))]
        ELSE detect(l, d)]

Detected ==
    [l \in UNION {Range(SplitText[t]) : t \in Texts}, d \in DocTypes |-> detect(l, d)]
SplitIntoLines == [t \in Texts |-> _split_into_lines(t)]
DetectedStructure ==
    [l \in UNION {Range(SplitIntoLines[t]) : t \in Texts} |-> detect_structure_type(l)]

(***************************************************************************)
(* State                                                                   *)
(***************************************************************************)
VARIABLES
    impl,               \* "hardened": LegalChunker.chunk of line-debugger.py;
                        \* "basic": LegalDocumentChunker.chunk_document;
                        \* "debug": LegalChunker.chunk of debug_structure.py;
                        \* "inline": LegalChunker.chunk of test-chunker.py
    doc_type,           \* LegalChunker.doc_type
    pc,                 \* "page": between pages; "line": inside a page; "done"
    page_num,           \* page_number of the page being read
    lines,              \* lines of the page still to be classified
    chunks,
    current_chapter, current_part, current_division,
    current_section,
    buffer,             \* buffer; section_text_buffer in chunker.py
    prev_section_num,   \* NoneNum or the number of the last accepted section
    section_count,
    pages_read,         \* history: number of pages taken from the input
    opened,             \* history: one record per section opened, see Open
    rejected,           \* history: number of Section lines skipped by `continue`
    skipped,            \* history: the Section lines skipped by `continue`, see Skip
    parsed_doc,         \* the argument of chunk when the document is given in
                        \* advance (SpecGiven); None in Spec, where each page is
                        \* drawn when it is read
    returned,           \* the lists returned by the invocations so far
    other,              \* the state of a second invocation while this one has
                        \* the processor (SpecPair); None when there is none
    parsed_container,   \* run_chunking: blob name -> parsed document
    chunks_container,   \* run_chunking: blob name -> chunks document
    blobs,              \* run_chunking: the names list_blobs() has yet to give
    invoked             \* history: the blobs the segmenter was invoked for

\* The variables of one invocation of a segmenter
invocation == <<impl, doc_type, pc, page_num, lines, chunks, current_chapter,
                current_part, current_division, current_section, buffer,
                prev_section_num, section_count, pages_read, opened, rejected,
                skipped, parsed_doc, returned>>

\* The variables of run_chunking
pipeline == <<parsed_container, chunks_container, blobs, invoked>>

vars == <<invocation, other, pipeline>>

context == <<current_chapter, current_part, current_division>>

\* None for an int
NoneNum == -1

\* The locals of chunk and of chunk_document at the start of an invocation
Locals ==
    /\ pc = "page"
    /\ page_num = 0
    /\ lines = <<>>
    /\ chunks = <<>>
    /\ current_chapter = None
    /\ current_part = None
    /\ current_division = None
    /\ current_section = None
    /\ buffer = <<>>
    /\ prev_section_num = NoneNum
    /\ section_count = 0
    /\ pages_read = 0
    /\ opened = <<>>
    /\ rejected = 0
    /\ skipped = <<>>

\* One invocation, called directly: no second invocation, no containers
Alone ==
    /\ other = None
    /\ parsed_container = None /\ chunks_container = None
    /\ blobs = <<>> /\ invoked = <<>>

\* A segmenter is constructed and called; the pages are drawn as they are read
Init ==
    /\ impl \in {"hardened", "basic"}
    /\ doc_type = "auto"
    /\ parsed_doc = None
    /\ returned = <<>>
    /\ Locals
    /\ Alone

(***************************************************************************)
(* History of the run: the sections opened, each with its header line, the *)
(* context at that moment and the body lines read while it was open.       *)
(***************************************************************************)
Open(section, header) ==
    Append(opened, [section |-> section,
                    header |-> header,
                    chapter |-> current_chapter,
                    part |-> current_part,
                    division |-> current_division,
                    body |-> <<>>])

\* The Section line being skipped, with its number, the number of the last
\* accepted section and the section open at that moment
Skip ==
    Append(skipped, [line |-> Head(lines),
                     num |-> int(strip_upper(Detected[Head(lines), doc_type].meta.number)),
                     prev |-> prev_section_num,
                     section |-> current_section])

Read(body_line) ==
    IF current_section = None THEN opened
    ELSE [opened EXCEPT ![Len(opened)].body = Append(@, body_line)]

(***************************************************************************)
(* LegalChunker.chunk of line-debugger.py                                  *)
(***************************************************************************)
line == Head(lines)

\* kind, meta = self.detector.detect(line, self.doc_type)
kind == Detected[line, doc_type].kind
meta == Detected[line, doc_type].meta

\* the step to the next line, or to the next page after the last line
NextLine ==
    /\ lines' = Tail(lines)
    /\ pc' = IF Len(lines) = 1 THEN "page" ELSE "line"

\* Flushing, were a section flushed only once a body line had followed its header
Flushing_body == current_section # None /\ Len(buffer) > 1

\* `if current_section and buffer:`
Flushing == current_section # None /\ buffer # <<>>

\* Flushed, were the chunk put at the front of the list
Flushed_in_front ==
    IF Flushing
    THEN <<_create_chunk(current_section, buffer, current_chapter,
                         current_part, current_division)>> \o chunks
    ELSE chunks

\* chunks after `if current_section and buffer: chunks.append(...)`
Flushed ==
    IF Flushing
    THEN Append(chunks, _create_chunk(current_section, buffer, current_chapter,
                                      current_part, current_division))
    ELSE chunks

\* for page in parsed_doc["pages"]: a front-matter page is skipped
chunk_skip_page(page) ==
    /\ impl = "hardened" /\ pc = "page" /\ pages_read < MaxPages
    /\ page \in FrontMatter
    /\ page_num' = page.page_number
    /\ pages_read' = pages_read + 1
    /\ UNCHANGED <<other, pipeline, impl, doc_type, pc, lines, chunks, context, current_section,
                   buffer, prev_section_num, section_count, opened, rejected,
                   skipped, parsed_doc, returned>>

\* for page in parsed_doc["pages"]: the page is split into lines
chunk_page(page) ==
    /\ impl = "hardened" /\ pc = "page" /\ pages_read < MaxPages
    /\ page \notin FrontMatter
    /\ page_num' = page.page_number
    /\ pages_read' = pages_read + 1
    /\ lines' = SplitText[page.text]
    /\ pc' = IF lines' = <<>> THEN "page" ELSE "line"
    /\ UNCHANGED <<other, pipeline, impl, doc_type, chunks, context, current_section, buffer,
                   prev_section_num, section_count, opened, rejected,
                   skipped, parsed_doc, returned>>

\* chunk_chapter, were the progression check started afresh at a new
\* chapter
chunk_chapter_reset_prev ==
    /\ impl = "hardened" /\ pc = "line" /\ kind = "chapter"
    /\ chunks' = Flushed
    /\ buffer' = IF Flushing THEN <<>> ELSE buffer
    /\ current_section' = IF Flushing THEN None ELSE current_section
    /\ current_chapter' = meta
    /\ current_part' = None
    /\ current_division' = None
    /\ prev_section_num' = NoneNum
    /\ NextLine
    /\ UNCHANGED <<other, pipeline, impl, doc_type, page_num, section_count,
                   pages_read, opened, rejected,
                   skipped, parsed_doc, returned>>

chunk_chapter ==
    /\ impl = "hardened" /\ pc = "line" /\ kind = "chapter"
    /\ chunks' = Flushed
    /\ buffer' = IF Flushing THEN <<>> ELSE buffer
    /\ current_section' = IF Flushing THEN None ELSE current_section
    /\ current_chapter' = meta
    /\ current_part' = None
    /\ current_division' = None
    /\ NextLine
    /\ UNCHANGED <<other, pipeline, impl, doc_type, page_num, prev_section_num, section_count,
                   pages_read, opened, rejected,
                   skipped, parsed_doc, returned>>

\* chunk_part, were the division kept when a part opens
chunk_part_keep_division ==
    /\ impl = "hardened" /\ pc = "line" /\ kind = "part"
    /\ chunks' = Flushed
    /\ buffer' = IF Flushing THEN <<>> ELSE buffer
    /\ current_section' = IF Flushing THEN None ELSE current_section
    /\ current_part' = meta
    /\ NextLine
    /\ UNCHANGED <<other, pipeline, impl, doc_type, page_num, current_chapter, current_division,
                   prev_section_num, section_count, pages_read, opened, rejected,
                   skipped, parsed_doc, returned>>

chunk_part ==
    /\ impl = "hardened" /\ pc = "line" /\ kind = "part"
    /\ chunks' = Flushed
    /\ buffer' = IF Flushing THEN <<>> ELSE buffer
    /\ current_section' = IF Flushing THEN None ELSE current_section
    /\ current_part' = meta
    /\ current_division' = None
    /\ NextLine
    /\ UNCHANGED <<other, pipeline, impl, doc_type, page_num, current_chapter, prev_section_num,
                   section_count, pages_read, opened, rejected,
                   skipped, parsed_doc, returned>>

\* chunk_division, were the flushed section left open
chunk_division_keep_open ==
    /\ impl = "hardened" /\ pc = "line" /\ kind = "division"
    /\ chunks' = Flushed
    /\ buffer' = IF Flushing THEN <<>> ELSE buffer
    /\ current_division' = meta
    /\ NextLine
    /\ UNCHANGED <<other, pipeline, impl, doc_type, page_num, current_chapter, current_part,
                   current_section, prev_section_num, section_count, pages_read,
                   opened, rejected,
                   skipped, parsed_doc, returned>>

chunk_division ==
    /\ impl = "hardened" /\ pc = "line" /\ kind = "division"
    /\ chunks' = Flushed
    /\ buffer' = IF Flushing THEN <<>> ELSE buffer
    /\ current_section' = IF Flushing THEN None ELSE current_section
    /\ current_division' = meta
    /\ NextLine
    /\ UNCHANGED <<other, pipeline, impl, doc_type, page_num, current_chapter, current_part,
                   prev_section_num, section_count, pages_read, opened, rejected,
                   skipped, parsed_doc, returned>>

\* int(re.sub(r'[A-Z]', '', meta['number']))
current_num == int(strip_upper(meta.number))

\* Suspicious, were a smaller number never a reason to skip
Suspicious_forward_only ==
    /\ prev_section_num # NoneNum /\ prev_section_num # 0
    /\ current_num > prev_section_num + 200

\* Suspicious, were the low threshold applied to the last accepted number
Suspicious_prev_threshold ==
    /\ prev_section_num # NoneNum /\ prev_section_num # 0
    /\ \/ current_num < prev_section_num /\ prev_section_num > 10
       \/ current_num > prev_section_num + 200

\* the two `continue` of the progression check
Suspicious ==
    /\ prev_section_num # NoneNum /\ prev_section_num # 0
    /\ \/ current_num < prev_section_num /\ current_num > 10
       \/ current_num > prev_section_num + 200

\* chunk_section, were the header line not put into the buffer of the new
\* section (as in chunker.py)
chunk_section_no_header ==
    /\ impl = "hardened" /\ pc = "line" /\ kind = "section"
    /\ IF Suspicious
       THEN /\ rejected' = rejected + 1
            /\ skipped' = Skip
            /\ UNCHANGED <<chunks, current_section, buffer, prev_section_num,
                           section_count, opened>>
       ELSE /\ prev_section_num' = current_num
            /\ chunks' = Flushed
            /\ current_section' = [number |-> meta.number, title |-> meta.title,
                                   page_start |-> page_num]
            /\ buffer' = IF Flushing THEN <<>> ELSE buffer
            /\ section_count' = section_count + 1
            /\ opened' = Open(current_section', line)
            /\ UNCHANGED <<rejected, skipped>>
    /\ NextLine
    /\ UNCHANGED <<other, pipeline, impl, doc_type, page_num, context, pages_read, parsed_doc,
                   returned>>

chunk_section ==
    /\ impl = "hardened" /\ pc = "line" /\ kind = "section"
    /\ IF Suspicious
       THEN /\ rejected' = rejected + 1
            /\ skipped' = Skip
            /\ UNCHANGED <<chunks, current_section, buffer, prev_section_num,
                           section_count, opened>>
       ELSE /\ prev_section_num' = current_num
            /\ chunks' = Flushed
            /\ current_section' = [number |-> meta.number, title |-> meta.title,
                                   page_start |-> page_num]
            /\ buffer' = Append(IF Flushing THEN <<>> ELSE buffer, line)
            /\ section_count' = section_count + 1
            /\ opened' = Open(current_section', line)
            /\ UNCHANGED <<rejected, skipped>>
    /\ NextLine
    /\ UNCHANGED <<other, pipeline, impl, doc_type, page_num, context, pages_read, parsed_doc,
                   returned>>

\* chunk_text, were the line assigned to the buffer instead of appended
chunk_text_overwrite ==
    /\ impl = "hardened" /\ pc = "line" /\ kind \in {"text", "subsection"}
    /\ buffer' = IF current_section # None THEN <<line>> ELSE buffer
    /\ opened' = Read(line)
    /\ NextLine
    /\ UNCHANGED <<other, pipeline, impl, doc_type, page_num, chunks, context, current_section,
                   prev_section_num, section_count, pages_read, rejected,
                   skipped, parsed_doc, returned>>

\* regular text or subsection
chunk_text ==
    /\ impl = "hardened" /\ pc = "line" /\ kind \in {"text", "subsection"}
    /\ buffer' = IF current_section # None THEN Append(buffer, line) ELSE buffer
    /\ opened' = Read(line)
    /\ NextLine
    /\ UNCHANGED <<other, pipeline, impl, doc_type, page_num, chunks, context, current_section,
                   prev_section_num, section_count, pages_read, rejected,
                   skipped, parsed_doc, returned>>

\* chunk_return, were the final flush forgotten
chunk_return_no_flush ==
    /\ impl = "hardened" /\ pc = "page"
    /\ returned' = Append(returned, chunks)
    /\ pc' = "done"
    /\ UNCHANGED <<other, pipeline, impl, doc_type, page_num, lines, chunks, context, current_section,
                   buffer, prev_section_num, section_count, pages_read, opened,
                   rejected, skipped, parsed_doc>>

\* after the last page: flush the final section and return chunks
chunk_return ==
    /\ impl = "hardened" /\ pc = "page"
    /\ chunks' = Flushed
    /\ returned' = Append(returned, chunks')
    /\ pc' = "done"
    /\ UNCHANGED <<other, pipeline, impl, doc_type, page_num, lines, context, current_section,
                   buffer, prev_section_num, section_count, pages_read, opened, rejected,
                   skipped, parsed_doc>>

(***************************************************************************)
(* LegalDocumentChunker.chunk_document of chunker.py                       *)
(***************************************************************************)
\* structure_type, metadata = self.detector.detect_structure_type(line)
structure_type == DetectedStructure[line].kind
metadata == DetectedStructure[line].meta

\* Saved, were the chunk written over the last one of the list
Saved_over_last ==
    IF current_section # None
    THEN Append(IF chunks = <<>> THEN chunks ELSE SubSeq(chunks, 1, Len(chunks) - 1),
                basic_create_chunk(current_section, buffer, current_chapter,
                                   current_part, current_division))
    ELSE chunks

\* chunks after `if current_section: chunks.append(...)`
Saved ==
    IF current_section # None
    THEN Append(chunks, basic_create_chunk(current_section, buffer, current_chapter,
                                           current_part, current_division))
    ELSE chunks

\* for page_data in parsed_doc["pages"]
chunk_document_page(page_data) ==
    /\ impl = "basic" /\ pc = "page" /\ pages_read < MaxPages
    /\ page_num' = page_data.page_number
    /\ pages_read' = pages_read + 1
    /\ lines' = SplitIntoLines[page_data.text]
    /\ pc' = IF lines' = <<>> THEN "page" ELSE "line"
    /\ UNCHANGED <<other, pipeline, impl, doc_type, chunks, context, current_section, buffer,
                   prev_section_num, section_count, opened, rejected,
                   skipped, parsed_doc, returned>>

\* chunk_document_chapter, were the context updated before the previous section
\* is saved
chunk_document_chapter_late ==
    /\ impl = "basic" /\ pc = "line" /\ structure_type = "chapter"
    /\ chunks' = IF current_section # None
                 THEN Append(chunks, basic_create_chunk(current_section, buffer,
                                                        metadata, None, None))
                 ELSE chunks
    /\ buffer' = IF current_section # None THEN <<>> ELSE buffer
    /\ current_chapter' = metadata
    /\ current_part' = None
    /\ current_division' = None
    /\ current_section' = None
    /\ NextLine
    /\ UNCHANGED <<other, pipeline, impl, doc_type, page_num, prev_section_num, section_count,
                   pages_read, opened, rejected,
                   skipped, parsed_doc, returned>>

chunk_document_chapter ==
    /\ impl = "basic" /\ pc = "line" /\ structure_type = "chapter"
    /\ chunks' = Saved
    /\ buffer' = IF current_section # None THEN <<>> ELSE buffer
    /\ current_chapter' = metadata
    /\ current_part' = None
    /\ current_division' = None
    /\ current_section' = None
    /\ NextLine
    /\ UNCHANGED <<other, pipeline, impl, doc_type, page_num, prev_section_num, section_count,
                   pages_read, opened, rejected,
                   skipped, parsed_doc, returned>>

chunk_document_part ==
    /\ impl = "basic" /\ pc = "line" /\ structure_type = "part"
    /\ chunks' = Saved
    /\ buffer' = IF current_section # None THEN <<>> ELSE buffer
    /\ current_part' = metadata
    /\ current_division' = None
    /\ current_section' = None
    /\ NextLine
    /\ UNCHANGED <<other, pipeline, impl, doc_type, page_num, current_chapter, prev_section_num,
                   section_count, pages_read, opened, rejected,
                   skipped, parsed_doc, returned>>

chunk_document_division ==
    /\ impl = "basic" /\ pc = "line" /\ structure_type = "division"
    /\ chunks' = Saved
    /\ buffer' = IF current_section # None THEN <<>> ELSE buffer
    /\ current_division' = metadata
    /\ current_section' = None
    /\ NextLine
    /\ UNCHANGED <<other, pipeline, impl, doc_type, page_num, current_chapter, current_part,
                   prev_section_num, section_count, pages_read, opened, rejected,
                   skipped, parsed_doc, returned>>

\* chunk_document_section, were the part and the division reset when the
\* previous section is saved
chunk_document_section_reset ==
    /\ impl = "basic" /\ pc = "line" /\ structure_type = "section"
    /\ chunks' = Saved
    /\ buffer' = IF current_section # None THEN <<>> ELSE buffer
    /\ current_section' = [number |-> metadata.number, title |-> metadata.title,
                           page |-> page_num]
    /\ current_part' = IF current_section # None THEN None ELSE current_part
    /\ current_division' = IF current_section # None THEN None ELSE current_division
    /\ opened' = opened \o
                 <<[section |-> current_section', header |-> line,
                    chapter |-> current_chapter, part |-> current_part',
                    division |-> current_division', body |-> <<>>]>>
    /\ NextLine
    /\ UNCHANGED <<other, pipeline, impl, doc_type, page_num, current_chapter, prev_section_num,
                   section_count, pages_read, rejected,
                   skipped, parsed_doc, returned>>

chunk_document_section ==
    /\ impl = "basic" /\ pc = "line" /\ structure_type = "section"
    /\ chunks' = Saved
    /\ buffer' = IF current_section # None THEN <<>> ELSE buffer
    /\ current_section' = [number |-> metadata.number, title |-> metadata.title,
                           page |-> page_num]
    /\ opened' = Open(current_section', line)
    /\ NextLine
    /\ UNCHANGED <<other, pipeline, impl, doc_type, page_num, context, prev_section_num,
                   section_count, pages_read, rejected,
                   skipped, parsed_doc, returned>>

\* chunk_document_text, were the line buffered whether or not a section is open
chunk_document_text_always ==
    /\ impl = "basic" /\ pc = "line" /\ structure_type \in {"text", "subsection"}
    /\ buffer' = Append(buffer, line)
    /\ opened' = Read(line)
    /\ NextLine
    /\ UNCHANGED <<other, pipeline, impl, doc_type, page_num, chunks, context, current_section,
                   prev_section_num, section_count, pages_read, rejected,
                   skipped, parsed_doc, returned>>

\* regular text: add to the current section buffer
chunk_document_text ==
    /\ impl = "basic" /\ pc = "line" /\ structure_type \in {"text", "subsection"}
    /\ buffer' = IF current_section # None THEN Append(buffer, line) ELSE buffer
    /\ opened' = Read(line)
    /\ NextLine
    /\ UNCHANGED <<other, pipeline, impl, doc_type, page_num, chunks, context, current_section,
                   prev_section_num, section_count, pages_read, rejected,
                   skipped, parsed_doc, returned>>

\* chunk_document_return, were an empty chunk list an error
\* (if not chunks: raise ValueError)
chunk_document_return_raise_empty ==
    /\ impl = "basic" /\ pc = "page"
    /\ chunks' = IF current_section # None /\ buffer # <<>>
                 THEN Append(chunks, basic_create_chunk(current_section, buffer,
                                 current_chapter, current_part, current_division))
                 ELSE chunks
    /\ returned' = IF chunks' = <<>> THEN returned ELSE Append(returned, chunks')
    /\ pc' = IF chunks' = <<>> THEN "raised" ELSE "done"
    /\ UNCHANGED <<other, pipeline, impl, doc_type, page_num, lines, context, current_section,
                   buffer, prev_section_num, section_count, pages_read, opened, rejected,
                   skipped, parsed_doc>>

\* after the last page: the last section, then return chunks
chunk_document_return ==
    /\ impl = "basic" /\ pc = "page"
    /\ chunks' = IF current_section # None /\ buffer # <<>>
                 THEN Append(chunks, basic_create_chunk(current_section, buffer,
                                 current_chapter, current_part, current_division))
                 ELSE chunks
    /\ returned' = Append(returned, chunks')
    /\ pc' = "done"
    /\ UNCHANGED <<other, pipeline, impl, doc_type, page_num, lines, context, current_section,
                   buffer, prev_section_num, section_count, pages_read, opened, rejected,
                   skipped, parsed_doc>>

Next ==
    \/ \E page \in Pages : chunk_skip_page(page)
    \/ \E page \in Pages : chunk_page(page)
    \/ chunk_chapter
    \/ chunk_part
    \/ chunk_division
    \/ chunk_section
    \/ chunk_text
    \/ chunk_return
    \/ \E page_data \in Pages : chunk_document_page(page_data)
    \/ chunk_document_chapter
    \/ chunk_document_part
    \/ chunk_document_division
    \/ chunk_document_section
    \/ chunk_document_text
    \/ chunk_document_return

Spec == Init /\ [][Next]_vars

(***************************************************************************)
(* The segmenters called on a document given in advance, and called again  *)
(* on the same document                                                    *)
(***************************************************************************)
\* A segmenter is constructed and called on a document
InitGiven ==
    /\ impl \in {"hardened", "basic"}
    /\ doc_type = "auto"
    \* the documents given in advance: lists of pages, some lacking a field, and
    \* a document without pages
    /\ parsed_doc \in
           {[pages |-> ps] :
               ps \in UNION {[1..n -> GivenPages \cup {[page_number |-> 4],
                                                      [text |-> "7. The Senate.\n"]}] :
                                n \in 0..MaxGiven}}
           \cup {[source_document |-> "act.pdf"]}
    /\ returned = <<>>
    /\ Locals
    /\ Alone

\* parsed_doc["pages"]
HasPages == "pages" \in DOMAIN parsed_doc

\* The next page of the loop over parsed_doc["pages"], if any
NextPages ==
    IF HasPages /\ pages_read < Len(parsed_doc.pages)
    THEN {parsed_doc.pages[pages_read + 1]} ELSE {}

\* The loop over parsed_doc["pages"] has ended
AtEnd == HasPages /\ pages_read = Len(parsed_doc.pages)

WellShaped(page) == DOMAIN page = {"page_number", "text"}

\* page["page_number"] or page["text"] raises KeyError
chunk_KeyError(page) ==
    /\ impl = "hardened" /\ pc = "page"
    /\ ~WellShaped(page)
    /\ page_num' = IF "page_number" \in DOMAIN page THEN page.page_number ELSE page_num
    /\ pages_read' = pages_read + 1
    /\ pc' = "raised"
    /\ UNCHANGED <<other, pipeline, impl, doc_type, lines, chunks, context, current_section, buffer,
                   prev_section_num, section_count, opened, rejected, skipped,
                   parsed_doc, returned>>

\* chunk_KeyError_pages, were a document without pages read as one of no
\* page (parsed_doc.get("pages", []))
chunk_KeyError_pages_default ==
    /\ impl = "hardened" /\ pc = "page" /\ pages_read = 0
    /\ ~HasPages
    /\ pc' = "done"
    /\ returned' = Append(returned, chunks)
    /\ UNCHANGED <<other, pipeline, impl, doc_type, page_num, lines, chunks, context, current_section,
                   buffer, prev_section_num, section_count, pages_read, opened,
                   rejected, skipped, parsed_doc>>

\* parsed_doc["pages"] raises KeyError
chunk_KeyError_pages ==
    /\ impl = "hardened" /\ pc = "page" /\ pages_read = 0
    /\ ~HasPages
    /\ pc' = "raised"
    /\ UNCHANGED <<other, pipeline, impl, doc_type, page_num, lines, chunks, context, current_section,
                   buffer, prev_section_num, section_count, pages_read, opened,
                   rejected, skipped, parsed_doc, returned>>

\* page_data["page_number"] or page_data["text"] raises KeyError
chunk_document_KeyError(page_data) ==
    /\ impl = "basic" /\ pc = "page"
    /\ ~WellShaped(page_data)
    /\ page_num' = IF "page_number" \in DOMAIN page_data
                   THEN page_data.page_number ELSE page_num
    /\ pages_read' = pages_read + 1
    /\ pc' = "raised"
    /\ UNCHANGED <<other, pipeline, impl, doc_type, lines, chunks, context, current_section, buffer,
                   prev_section_num, section_count, opened, rejected, skipped,
                   parsed_doc, returned>>

\* parsed_doc["pages"] raises KeyError
chunk_document_KeyError_pages ==
    /\ impl = "basic" /\ pc = "page" /\ pages_read = 0
    /\ ~HasPages
    /\ pc' = "raised"
    /\ UNCHANGED <<other, pipeline, impl, doc_type, page_num, lines, chunks, context, current_section,
                   buffer, prev_section_num, section_count, pages_read, opened,
                   rejected, skipped, parsed_doc, returned>>

\* chunk_again, were the number of the last accepted section kept in the
\* instance
chunk_again_keeps_prev ==
    /\ pc = "done" /\ Len(returned) = 1
    /\ pc' = "page" /\ page_num' = 0 /\ lines' = <<>> /\ chunks' = <<>>
    /\ current_chapter' = None /\ current_part' = None /\ current_division' = None
    /\ current_section' = None /\ buffer' = <<>>
    /\ section_count' = 0 /\ pages_read' = 0
    /\ opened' = <<>> /\ rejected' = 0 /\ skipped' = <<>>
    /\ UNCHANGED <<other, pipeline, impl, doc_type, parsed_doc, returned, prev_section_num>>

\* The segmenter that has returned is called again on the same document:
\* the locals start afresh, the instance keeps its detector and its doc_type
chunk_again ==
    /\ pc = "done" /\ Len(returned) = 1
    /\ pc' = "page" /\ page_num' = 0 /\ lines' = <<>> /\ chunks' = <<>>
    /\ current_chapter' = None /\ current_part' = None /\ current_division' = None
    /\ current_section' = None /\ buffer' = <<>>
    /\ prev_section_num' = NoneNum /\ section_count' = 0 /\ pages_read' = 0
    /\ opened' = <<>> /\ rejected' = 0 /\ skipped' = <<>>
    /\ UNCHANGED <<other, pipeline, impl, doc_type, parsed_doc, returned>>

NextGiven ==
    \/ \E page \in NextPages : WellShaped(page) /\ chunk_skip_page(page)
    \/ \E page \in NextPages : WellShaped(page) /\ chunk_page(page)
    \/ \E page \in NextPages : chunk_KeyError(page)
    \/ chunk_KeyError_pages
    \/ chunk_chapter
    \/ chunk_part
    \/ chunk_division
    \/ chunk_section
    \/ chunk_text
    \/ AtEnd /\ chunk_return
    \/ \E page_data \in NextPages : WellShaped(page_data) /\ chunk_document_page(page_data)
    \/ \E page_data \in NextPages : chunk_document_KeyError(page_data)
    \/ chunk_document_KeyError_pages
    \/ chunk_document_chapter
    \/ chunk_document_part
    \/ chunk_document_division
    \/ chunk_document_section
    \/ chunk_document_text
    \/ AtEnd /\ chunk_document_return
    \/ chunk_again

SpecGiven == InitGiven /\ [][NextGiven]_vars

\* The interpreter runs the call to its end
SpecFair == SpecGiven /\ WF_vars(NextGiven)

\* A segmenter is constructed, the hardened one with a doc_type hint, and
\* called on a document of stray lines
InitHint ==
    /\ \/ impl = "hardened" /\ doc_type \in DocTypes
       \/ impl = "basic" /\ doc_type = "auto"
    /\ parsed_doc \in
           {[pages |-> ps] : ps \in UNION {[1..n -> ProbePages] : n \in 1..MaxHint}}
    /\ returned = <<>>
    /\ Locals
    /\ Alone

NextHint ==
    \/ \E page \in NextPages : chunk_page(page)
    \/ chunk_chapter
    \/ chunk_part
    \/ chunk_division
    \/ chunk_section
    \/ chunk_text
    \/ AtEnd /\ chunk_return
    \/ \E page_data \in NextPages : chunk_document_page(page_data)
    \/ chunk_document_chapter
    \/ chunk_document_part
    \/ chunk_document_division
    \/ chunk_document_section
    \/ chunk_document_text
    \/ AtEnd /\ chunk_document_return

SpecHint == InitHint /\ [][NextHint]_vars

(***************************************************************************)
(* Two invocations, each on its own document, taking turns                 *)
(***************************************************************************)

\* The documents of the two invocations, of one page each
PairDocs ==
    {[pages |-> <<page>>] : page \in
        [page_number : {4},
         text : {"7. The Senate.\n(1) In this section\n8. The House.\n",
                 "Chapter 33 Offences against liberty\nPart 6 Offences relating to property\n354 Kidnapping for ransom\nA person who kidnaps another.\n"}]}

\* The locals of an invocation not yet started: a segmenter constructed, its
\* method called on document
Called(segmenter, document) ==
    [impl |-> segmenter, doc_type |-> "auto", pc |-> "page", page_num |-> 0,
     lines |-> <<>>, chunks |-> <<>>, current_chapter |-> None,
     current_part |-> None, current_division |-> None,
     current_section |-> None, buffer |-> <<>>, prev_section_num |-> NoneNum,
     section_count |-> 0, pages_read |-> 0, opened |-> <<>>, rejected |-> 0,
     skipped |-> <<>>, parsed_doc |-> document, returned |-> <<>>]

\* The state of the invocation that has the processor
Suspended ==
    [impl |-> impl,
     doc_type |-> doc_type,
     pc |-> pc,
     page_num |-> page_num,
     lines |-> lines,
     chunks |-> chunks,
     current_chapter |-> current_chapter,
     current_part |-> current_part,
     current_division |-> current_division,
     current_section |-> current_section,
     buffer |-> buffer,
     prev_section_num |-> prev_section_num,
     section_count |-> section_count,
     pages_read |-> pages_read,
     opened |-> opened,
     rejected |-> rejected,
     skipped |-> skipped,
     parsed_doc |-> parsed_doc,
     returned |-> returned]

InitPair ==
    /\ impl \in {"hardened", "basic"}
    /\ doc_type = "auto"
    /\ parsed_doc \in PairDocs
    /\ returned = <<>>
    /\ Locals
    /\ other \in {Called(segmenter, document) :
                      segmenter \in {"hardened", "basic"}, document \in PairDocs}
    /\ parsed_container = None /\ chunks_container = None
    /\ blobs = <<>> /\ invoked = <<>>

\* switch, were the number of the last accepted section one cell shared by
\* the invocations (a class attribute)
switch_shared_prev ==
    /\ other # None
    /\ Len(returned) >= 1 /\ pc \in {"page", "line", "done"}
    /\ other' = Suspended
    /\ impl' = other.impl
    /\ doc_type' = other.doc_type
    /\ pc' = other.pc
    /\ page_num' = other.page_num
    /\ lines' = other.lines
    /\ chunks' = other.chunks
    /\ current_chapter' = other.current_chapter
    /\ current_part' = other.current_part
    /\ current_division' = other.current_division
    /\ current_section' = other.current_section
    /\ buffer' = other.buffer
    /\ section_count' = other.section_count
    /\ pages_read' = other.pages_read
    /\ opened' = other.opened
    /\ rejected' = other.rejected
    /\ skipped' = other.skipped
    /\ parsed_doc' = other.parsed_doc
    /\ returned' = other.returned
    /\ UNCHANGED <<prev_section_num, pipeline>>

\* The processor passes to the other invocation, between two lines. Each
\* invocation first runs once without giving the processor away, so that
\* returned[1] is what it returns alone.
switch ==
    /\ other # None
    /\ Len(returned) >= 1 /\ pc \in {"page", "line", "done"}
    /\ other' = Suspended
    /\ impl' = other.impl
    /\ doc_type' = other.doc_type
    /\ pc' = other.pc
    /\ page_num' = other.page_num
    /\ lines' = other.lines
    /\ chunks' = other.chunks
    /\ current_chapter' = other.current_chapter
    /\ current_part' = other.current_part
    /\ current_division' = other.current_division
    /\ current_section' = other.current_section
    /\ buffer' = other.buffer
    /\ prev_section_num' = other.prev_section_num
    /\ section_count' = other.section_count
    /\ pages_read' = other.pages_read
    /\ opened' = other.opened
    /\ rejected' = other.rejected
    /\ skipped' = other.skipped
    /\ parsed_doc' = other.parsed_doc
    /\ returned' = other.returned
    /\ UNCHANGED pipeline

NextPair ==
    \/ \E page \in NextPages : chunk_page(page)
    \/ chunk_chapter
    \/ chunk_part
    \/ chunk_section
    \/ chunk_text
    \/ AtEnd /\ chunk_return
    \/ \E page_data \in NextPages : chunk_document_page(page_data)
    \/ chunk_document_chapter
    \/ chunk_document_part
    \/ chunk_document_section
    \/ chunk_document_text
    \/ AtEnd /\ chunk_document_return
    \/ chunk_again
    \/ switch

SpecPair == InitPair /\ [][NextPair]_vars

(***************************************************************************)
(* run_chunking of chunker.py                                              *)
(***************************************************************************)
\* The names list_blobs() gives, in its order
BlobNames == <<"a.json", "b.json", "notes.txt">>

\* A chunks document left by an earlier run
ChunkedBefore ==
    [source_document |-> "old.pdf", total_chunks |-> 0,
     chunked_at |-> "2025-01-03T00:00:00Z", chunks |-> <<>>]

\* The containers hold some blobs; run_chunking is called
InitPipeline ==
    /\ impl = "basic" /\ doc_type = "auto"
    /\ pc = "blob"
    /\ page_num = 0 /\ lines = <<>> /\ chunks = <<>>
    /\ current_chapter = None /\ current_part = None /\ current_division = None
    /\ current_section = None /\ buffer = <<>>
    /\ prev_section_num = NoneNum /\ section_count = 0 /\ pages_read = 0
    /\ opened = <<>> /\ rejected = 0 /\ skipped = <<>>
    /\ parsed_doc = None /\ returned = <<>>
    /\ other = None
    /\ parsed_container \in
           \* the parsed documents of the blobs: one with a section under its
           \* headings, one of no page, one without pages
           UNION {[Names ->
                      {[source_document |-> "act.pdf",
                        pages |-> <<[page_number |-> 4,
                                     text |-> "Chapter 33 Offences against liberty\nPart 6 Offences relating to property\nDivision 1 Stealing and like offences\n354 Kidnapping for ransom\nA person who kidnaps another.\n"]>>],
                       [pages |-> <<>>],
                       [source_document |-> "act.pdf"]}] :
                  Names \in SUBSET Range(BlobNames)}
    /\ chunks_container \in
           UNION {[Names -> {ChunkedBefore}] :
                      Names \in SUBSET {"a.json", "b.json", "old.json"}}
    /\ blobs = SelectSeq(BlobNames, LAMBDA name : name \in DOMAIN parsed_container)
    /\ invoked = <<>>

\* blob.name of the blob the loop is at
blob_name == Head(blobs)

\* if not blob.name.endswith(".json"): continue
run_chunking_not_json ==
    /\ pc = "blob" /\ blobs # <<>>
    /\ ~endswith(blob_name, ".json")
    /\ blobs' = Tail(blobs)
    /\ UNCHANGED <<invocation, other, parsed_container, chunks_container, invoked>>

\* run_chunking_exists, were the chunks blob deleted and the document
\* chunked again
run_chunking_exists_again ==
    /\ pc = "blob" /\ blobs # <<>>
    /\ endswith(blob_name, ".json")
    /\ blob_name \in DOMAIN chunks_container
    /\ chunks_container' =
           [name \in DOMAIN chunks_container \ {blob_name} |-> chunks_container[name]]
    /\ UNCHANGED <<invocation, other, parsed_container, blobs, invoked>>

\* if chunks_container.get_blob_client(chunk_name).exists(): continue
run_chunking_exists ==
    /\ pc = "blob" /\ blobs # <<>>
    /\ endswith(blob_name, ".json")
    /\ blob_name \in DOMAIN chunks_container
    /\ blobs' = Tail(blobs)
    /\ UNCHANGED <<invocation, other, parsed_container, chunks_container, invoked>>

\* parsed_data = json.loads(...); chunks = chunker.chunk_document(parsed_data):
\* the call, with the locals of chunk_document at its entry
run_chunking_chunk_document ==
    /\ pc = "blob" /\ blobs # <<>>
    /\ endswith(blob_name, ".json")
    /\ blob_name \notin DOMAIN chunks_container
    /\ parsed_doc' = parsed_container[blob_name]
    /\ invoked' = Append(invoked, blob_name)
    /\ pc' = "page" /\ page_num' = 0 /\ lines' = <<>> /\ chunks' = <<>>
    /\ current_chapter' = None /\ current_part' = None /\ current_division' = None
    /\ current_section' = None /\ buffer' = <<>>
    /\ prev_section_num' = NoneNum /\ section_count' = 0 /\ pages_read' = 0
    /\ opened' = <<>> /\ rejected' = 0 /\ skipped' = <<>>
    /\ UNCHANGED <<impl, doc_type, returned, other, parsed_container,
                   chunks_container, blobs>>

\* parsed_data.get("source_document")
source_document ==
    IF "source_document" \in DOMAIN parsed_doc
    THEN parsed_doc.source_document ELSE "None"

\* chunks_container.upload_blob(name=chunk_name, data=..., overwrite=True)
run_chunking_upload_blob ==
    /\ pc = "done" /\ blobs # <<>>
    /\ chunks_container' =
           [name \in DOMAIN chunks_container \cup {blob_name} |->
               IF name = blob_name
               THEN [source_document |-> source_document,
                     total_chunks |-> Len(chunks),
                     chunked_at |-> "2025-01-03T00:00:00Z",
                     chunks |-> chunks]
               ELSE chunks_container[name]]
    /\ blobs' = Tail(blobs)
    /\ pc' = "blob"
    /\ UNCHANGED <<impl, doc_type, page_num, lines, chunks, context,
                   current_section, buffer, prev_section_num, section_count,
                   pages_read, opened, rejected, skipped, parsed_doc, returned,
                   other, parsed_container, invoked>>

\* the loop over list_blobs() ends
run_chunking_return ==
    /\ pc = "blob" /\ blobs = <<>>
    /\ pc' = "finished"
    /\ UNCHANGED <<impl, doc_type, page_num, lines, chunks, context,
                   current_section, buffer, prev_section_num, section_count,
                   pages_read, opened, rejected, skipped, parsed_doc, returned,
                   other, pipeline>>

NextPipeline ==
    \/ run_chunking_not_json
    \/ run_chunking_exists
    \/ run_chunking_chunk_document
    \/ \E page_data \in NextPages : chunk_document_page(page_data)
    \/ chunk_document_KeyError_pages
    \/ chunk_document_chapter
    \/ chunk_document_part
    \/ chunk_document_division
    \/ chunk_document_section
    \/ chunk_document_text
    \/ AtEnd /\ chunk_document_return
    \/ run_chunking_upload_blob
    \/ run_chunking_return

SpecPipeline == InitPipeline /\ [][NextPipeline]_vars

(***************************************************************************)
(* The chunk constructors of the three variants, applied to given inputs   *)
(***************************************************************************)
\* LegalChunker._flush of test-chunker.py
_flush(section, buffer_, chapter, part, division) ==
    [chunk_id |-> "section_" \o section.number,
     section_number |-> section.number,
     section_title |-> section.title,
     breadcrumb |->
         join(" > ",
              (IF chapter # None THEN <<"Chapter " \o chapter.number>> ELSE <<>>)
              \o (IF part # None THEN <<"Part " \o part.number>> ELSE <<>>)
              \o (IF division # None THEN <<"Division " \o division.number>>
                  ELSE <<>>)),
     text |-> join(" ", buffer_),
     metadata |-> [page_start |-> section.page_start,
                   jurisdiction |-> "Australia",
                   document_type |-> "legislation"]]

\* A constructor is about to be called with a section, its buffer and a
\* context
InitFlush ==
    /\ impl \in {"hardened", "basic", "inline"}
    /\ doc_type = "auto"
    /\ pc = "flush"
    /\ page_num = 4 /\ lines = <<>> /\ chunks = <<>>
    /\ current_chapter \in {None, [number |-> "33", title |-> "Offences against liberty"]}
    /\ current_part \in {None, [number |-> "6", title |-> "Offences relating to property"]}
    /\ current_division \in {None, [number |-> "1", title |-> "Stealing and like offences"]}
    \* sections with the buffers their header lines start: each header in the
    \* spellings the section patterns take
    /\ \E given \in
         {<<"7", "The Senate", <<"7. The Senate.", "The Senate shall be composed.">>>>,
          <<"7", "The Senate", <<"7.  The Senate.", "The Senate shall be composed.">>>>,
          <<"7", "The Senate", <<"7.   The Senate.", "The Senate shall be composed.">>>>,
          <<"7", "The Senate", <<"7.\tThe Senate.", "The Senate shall be composed.">>>>,
          <<"354", "Kidnapping for ransom",
            <<"354 Kidnapping for ransom", "A person who kidnaps another.">>>>,
          <<"354", "Kidnapping for ransom",
            <<"354  Kidnapping for ransom", "A person who kidnaps another.">>>>,
          <<"354", "Kidnapping for ransom",
            <<"354 Kidnapping for ransom A person who kidnaps another.">>>>} :
           /\ current_section = [number |-> given[1], title |-> given[2],
                                 page_start |-> 4, page |-> 4]
           /\ buffer = given[3]
    /\ prev_section_num = NoneNum /\ section_count = 0 /\ pages_read = 0
    /\ opened = <<>> /\ rejected = 0 /\ skipped = <<>>
    /\ parsed_doc = None /\ returned = <<>>
    /\ Alone

\* The constructor of the variant returns its chunk
Constructed(chunk) ==
    /\ pc = "flush"
    /\ chunks' = <<chunk>>
    /\ pc' = "done"
    /\ UNCHANGED <<other, pipeline, impl, doc_type, page_num, lines, context,
                   current_section, buffer, prev_section_num, section_count,
                   pages_read, opened, rejected, skipped, parsed_doc, returned>>

\* line-debugger.py
flush_create_chunk ==
    /\ impl = "hardened"
    /\ Constructed(_create_chunk(current_section, buffer, current_chapter,
                                 current_part, current_division))

\* chunker.py
flush_basic_create_chunk ==
    /\ impl = "basic"
    /\ Constructed(basic_create_chunk(current_section, buffer, current_chapter,
                                      current_part, current_division))

\* test-chunker.py
flush_flush ==
    /\ impl = "inline"
    /\ Constructed(_flush(current_section, buffer, current_chapter,
                          current_part, current_division))

NextFlush ==
    \/ flush_create_chunk
    \/ flush_basic_create_chunk
    \/ flush_flush

SpecFlush == InitFlush /\ [][NextFlush]_vars

(***************************************************************************)
(* LegalChunker.chunk of debug_structure.py (impl "debug") and of          *)
(* test-chunker.py (impl "inline"): the same loop, the three heading       *)
(* branches of the former being one branch in the latter                   *)
(***************************************************************************)
\* The lines of every page text, computed once
SplitBy ==
    [i \in {"debug", "inline"}, t \in {page.text : page \in GivenPages} |->
        IF i = "debug" THEN debug_split_text(t) ELSE _split(t)]

\* kind, meta = self.detector.detect(line), computed once for every line
DetectedBy ==
    [i \in {"debug", "inline"},
     l \in UNION {Range(SplitBy[j, page.text]) :
                      j \in {"debug", "inline"}, page \in GivenPages} |->
        IF i = "debug" THEN debug_detect(l) ELSE inline_detect(l)]

\* chunks after `if current_section: chunks.append(...)`
Emitted ==
    IF current_section = None THEN chunks
    ELSE Append(chunks,
                IF impl = "debug"
                THEN debug_create_chunk(current_section, buffer, current_chapter,
                                        current_part, current_division)
                ELSE _flush(current_section, buffer, current_chapter,
                            current_part, current_division))

\* for page in parsed_doc["pages"]: no page is skipped
buffered_chunk_page(page) ==
    /\ impl \in {"debug", "inline"} /\ pc = "page"
    /\ page_num' = page.page_number
    /\ pages_read' = pages_read + 1
    /\ lines' = SplitBy[impl, page.text]
    /\ pc' = IF lines' = <<>> THEN "page" ELSE "line"
    /\ UNCHANGED <<other, pipeline, impl, doc_type, chunks, context, current_section,
                   buffer, prev_section_num, section_count, opened, rejected,
                   skipped, parsed_doc, returned>>

\* buffered_chunk_heading, were the section left open when its buffer is emptied
buffered_chunk_heading_keeps_section ==
    /\ impl \in {"debug", "inline"} /\ pc = "line"
    /\ DetectedBy[impl, line].kind \in {"chapter", "part", "division"}
    /\ chunks' = Emitted
    /\ buffer' = IF current_section # None THEN <<>> ELSE buffer
    /\ current_section' = current_section
    /\ current_chapter' = IF DetectedBy[impl, line].kind = "chapter"
                          THEN DetectedBy[impl, line].meta ELSE current_chapter
    /\ current_part' = CASE DetectedBy[impl, line].kind = "chapter" -> None
                         [] DetectedBy[impl, line].kind = "part" ->
                                DetectedBy[impl, line].meta
                         [] OTHER -> current_part
    /\ current_division' = IF DetectedBy[impl, line].kind = "division"
                           THEN DetectedBy[impl, line].meta ELSE None
    /\ NextLine
    /\ UNCHANGED <<other, pipeline, impl, doc_type, page_num, prev_section_num,
                   section_count, pages_read, opened, rejected, skipped, parsed_doc,
                   returned>>

\* if kind == "chapter": ... elif kind == "part": ... elif kind == "division": ...
\* (if kind in {"chapter", "part", "division"}: in test-chunker.py)
buffered_chunk_heading ==
    /\ impl \in {"debug", "inline"} /\ pc = "line"
    /\ DetectedBy[impl, line].kind \in {"chapter", "part", "division"}
    /\ chunks' = Emitted
    /\ buffer' = IF current_section # None THEN <<>> ELSE buffer
    /\ current_section' = None
    /\ current_chapter' = IF DetectedBy[impl, line].kind = "chapter"
                          THEN DetectedBy[impl, line].meta ELSE current_chapter
    /\ current_part' = CASE DetectedBy[impl, line].kind = "chapter" -> None
                         [] DetectedBy[impl, line].kind = "part" ->
                                DetectedBy[impl, line].meta
                         [] OTHER -> current_part
    /\ current_division' = IF DetectedBy[impl, line].kind = "division"
                           THEN DetectedBy[impl, line].meta ELSE None
    /\ NextLine
    /\ UNCHANGED <<other, pipeline, impl, doc_type, page_num, prev_section_num,
                   section_count, pages_read, opened, rejected, skipped, parsed_doc,
                   returned>>

\* elif kind == "section":
buffered_chunk_section ==
    /\ impl \in {"debug", "inline"} /\ pc = "line"
    /\ DetectedBy[impl, line].kind = "section"
    /\ chunks' = Emitted
    /\ current_section' = [number |-> DetectedBy[impl, line].meta.number,
                           title |-> DetectedBy[impl, line].meta.title,
                           page_start |-> page_num]
    /\ buffer' = Append(IF current_section # None THEN <<>> ELSE buffer, line)
    /\ opened' = Open(current_section', line)
    /\ NextLine
    /\ UNCHANGED <<other, pipeline, impl, doc_type, page_num, context, prev_section_num,
                   section_count, pages_read, rejected, skipped, parsed_doc, returned>>

\* else: regular text or subsection
buffered_chunk_text ==
    /\ impl \in {"debug", "inline"} /\ pc = "line"
    /\ DetectedBy[impl, line].kind \in {"text", "subsection"}
    /\ buffer' = IF current_section # None THEN Append(buffer, line) ELSE buffer
    /\ opened' = Read(line)
    /\ NextLine
    /\ UNCHANGED <<other, pipeline, impl, doc_type, page_num, chunks, context,
                   current_section, prev_section_num, section_count, pages_read,
                   rejected, skipped, parsed_doc, returned>>

\* if current_section and buffer: chunks.append(...); return chunks
buffered_chunk_return ==
    /\ impl \in {"debug", "inline"} /\ pc = "page"
    /\ chunks' = IF buffer = <<>> THEN chunks ELSE Emitted
    /\ returned' = Append(returned, chunks')
    /\ pc' = "done"
    /\ UNCHANGED <<other, pipeline, impl, doc_type, page_num, lines, context,
                   current_section, buffer, prev_section_num, section_count,
                   pages_read, opened, rejected, skipped, parsed_doc>>

\* One of the three header-buffering segmenters is called on a document of
\* well-shaped pages
InitBuffered ==
    /\ impl \in {"hardened", "debug", "inline"}
    /\ doc_type = "auto"
    /\ parsed_doc \in {[pages |-> ps] :
                          ps \in UNION {[1..n -> GivenPages] : n \in 0..MaxGiven}}
    /\ returned = <<>>
    /\ Locals
    /\ Alone

NextBuffered ==
    \/ \E page \in NextPages : chunk_skip_page(page)
    \/ \E page \in NextPages : chunk_page(page)
    \/ chunk_chapter
    \/ chunk_part
    \/ chunk_division
    \/ chunk_section
    \/ chunk_text
    \/ AtEnd /\ chunk_return
    \/ \E page \in NextPages : buffered_chunk_page(page)
    \/ buffered_chunk_heading
    \/ buffered_chunk_section
    \/ buffered_chunk_text
    \/ AtEnd /\ buffered_chunk_return

SpecBuffered == InitBuffered /\ [][NextBuffered]_vars

(***************************************************************************)
(* Properties of the two segmenters                                        *)
(***************************************************************************)
\* The classification of the line being read, in either segmenter
Event == IF impl = "hardened" THEN Detected[line, doc_type] ELSE DetectedStructure[line]

\* A line is being read and is classified as one of Kinds
Reading(Kinds) == pc = "line" /\ Event.kind \in Kinds

\* A Section line is being read and is accepted (in chunker.py every one is)
Accepting == Reading({"section"}) /\ (impl = "hardened" => ~Suspicious)

Last(seq) == seq[Len(seq)]

IsSuffix(t, text) == Len(t) <= Len(text) /\ From(text, Len(text) - Len(t) + 1) = t

\* The breadcrumb and the chapter/part/division metadata of a chunk
Ancestry(chunk) ==
    <<chunk.breadcrumb, chunk.metadata.chapter, chunk.metadata.part,
      chunk.metadata.division>>

\* The ancestry _create_chunk builds from a context
AncestryOf(chapter, part, division) ==
    IF impl = "hardened"
    THEN Ancestry(_create_chunk([number |-> "", title |-> "", page_start |-> 0],
                                <<>>, chapter, part, division))
    ELSE Ancestry(basic_create_chunk([number |-> "", title |-> "", page |-> 0],
                                     <<>>, chapter, part, division))

\* C1: in the hardened segmenter the number of chunks returned equals the
\* number of Section candidates accepted, and at every point of the run at
\* most one section is open: the sections opened and not yet turned into a
\* chunk are the open section alone, or none.
C1_Exclusivity ==
    impl = "hardened" =>
        /\ Len(opened) = section_count
        /\ pc # "done" =>
               Len(opened) - Len(chunks) = (IF current_section # None THEN 1 ELSE 0)
        /\ pc = "done" => Len(chunks) = section_count

\* a run that returned two chunks and skipped a Section candidate
C1_Witness ==
    /\ impl = "hardened" /\ pc = "done"
    /\ Len(chunks) = 2 /\ section_count = 2 /\ rejected >= 1

\* C2: completeness.  The i-th chunk is the chunk of the i-th section
\* opened; the Text and Subsection lines read while that section was open
\* are, joined in their input order, the end of that chunk's text, and the
\* text holds nothing but (a part of) the section's header line before them;
\* at the end of the run every section that read a line has its chunk.
C2_Completeness ==
    /\ Len(chunks) <= Len(opened)
    /\ \A i \in 1..Len(chunks) :
           /\ chunks[i].section_number = opened[i].section.number
           /\ IsSuffix(join(" ", opened[i].body), chunks[i].text)
           /\ IsSuffix(chunks[i].text,
                       join(" ", <<opened[i].header>> \o opened[i].body))
    /\ pc = "done" =>
           \A i \in 1..Len(opened) : opened[i].body # <<>> => i <= Len(chunks)

\* a chunk returned by the hardened segmenter whose section read two lines
C2_Witness ==
    /\ pc = "done" /\ impl = "hardened"
    /\ \E i \in 1..Len(chunks) :
           /\ Len(opened[i].body) = 2
           /\ chunks[i].text = join(" ", opened[i].body)

\* C3: the breadcrumb and the chapter/part/division metadata of every chunk
\* are those of the context that was current when its section was opened.
C3_AncestryAtOpen ==
    \A i \in 1..Len(chunks) :
        Ancestry(chunks[i])
            = AncestryOf(opened[i].chapter, opened[i].part, opened[i].division)

\* a chunk whose section was opened under a chapter and a part, after the
\* context has moved on to another chapter
C3_Witness ==
    \E i \in 1..Len(chunks) :
        /\ opened[i].chapter # None /\ opened[i].part # None
        /\ current_chapter # opened[i].chapter /\ current_part = None
        /\ chunks[i].metadata.part = opened[i].part.number

\* C4: context-clearing.  A Chapter line unsets part and division; a Part
\* line unsets division and leaves the chapter; a Division line leaves
\* chapter and part.  A section opened under a chapter alone (as after
\* Chapter 34 follows Part 6 of Chapter 33) gets a breadcrumb that holds
\* only the chapter.
C4_Step ==
    /\ Reading({"chapter"}) => current_part' = None /\ current_division' = None
    /\ Reading({"part"}) =>
           current_division' = None /\ current_chapter' = current_chapter
    /\ Reading({"division"}) =>
           current_chapter' = current_chapter /\ current_part' = current_part
    /\ \A i \in 1..Len(chunks') :
           (opened'[i].chapter # None /\ opened'[i].part = None
              /\ opened'[i].division = None)
           => chunks'[i].breadcrumb
                  = "Chapter " \o opened'[i].chapter.number \o ": "
                    \o opened'[i].chapter.title

C4_ContextClearing == [][C4_Step]_vars

\* Part 6 was set under Chapter 33, Chapter 34 was opened, and the chunk of
\* the next section has the breadcrumb of Chapter 34 alone
C4_Witness ==
    /\ Len(chunks) = 2
    /\ opened[1].chapter # None /\ opened[1].chapter.number = "33"
    /\ opened[1].part # None /\ opened[1].part.number = "6"
    /\ current_chapter # None /\ current_chapter.number = "34"
    /\ current_part = None
    /\ chunks[2].breadcrumb = "Chapter 34: Robbery and extortion"

\* C5: only Chapter, Part and Division lines change the context: taking a
\* page, a Section line (with its flush), a Text or Subsection line and the
\* end of input leave chapter, part and division as they are; hence a
\* section that supersedes another has the ancestry of the chunk just
\* flushed.
C5_Step ==
    /\ ~Reading({"chapter", "part", "division"}) => context' = context
    /\ (Accepting /\ current_section # None) =>
           /\ Len(chunks') = Len(chunks) + 1
           /\ Ancestry(Last(chunks'))
                  = AncestryOf(Last(opened').chapter, Last(opened').part,
                               Last(opened').division)

C5_ContextFrame == [][C5_Step]_vars

\* two chunks of sections opened on different pages under one part, with no
\* heading between them
C5_Witness ==
    /\ Len(chunks) >= 2 /\ Len(opened) >= 2
    /\ opened[1].part # None
    /\ chunks[1].breadcrumb = chunks[2].breadcrumb
    /\ opened[1].section # opened[2].section
    /\ \/ impl = "hardened"
          /\ chunks[1].metadata.page_start # chunks[2].metadata.page_start
       \/ impl = "basic" /\ chunks[1].metadata.page # chunks[2].metadata.page

\* C6: on a Chapter, Part or Division line, when a section is open exactly
\* its chunk is appended and no section is open afterwards; when none is
\* open the output is unchanged; either way the slot of the heading holds
\* the number and the title of the heading afterwards.
C6_Step ==
    Reading({"chapter", "part", "division"}) =>
        /\ IF current_section # None
           THEN /\ Len(chunks') = Len(chunks) + 1
                /\ SubSeq(chunks', 1, Len(chunks)) = chunks
                /\ Last(chunks').section_number = current_section.number
                /\ Last(chunks').section_title = current_section.title
                /\ current_section' = None
           ELSE chunks' = chunks /\ current_section' = None
        /\ Event.kind = "chapter" => current_chapter' = Event.meta
        /\ Event.kind = "part" => current_part' = Event.meta
        /\ Event.kind = "division" => current_division' = Event.meta

C6_HeadingEvent == [][C6_Step]_vars

\* a Division line has just flushed the open section of the hardened
\* segmenter
C6_Witness ==
    /\ impl = "hardened" /\ Len(chunks) = 1 /\ Len(opened) = 1
    /\ current_section = None
    /\ current_division # None /\ opened[1].division = None

\* C7: on an accepted Section line in the hardened segmenter the chunk of
\* the open section, if any, is appended first; afterwards the open section
\* has the number and the title of the match and the number of the page
\* being read, and the buffer is exactly the header line.
C7_Step ==
    (impl = "hardened" /\ Accepting) =>
        /\ IF current_section # None
           THEN /\ Len(chunks') = Len(chunks) + 1
                /\ SubSeq(chunks', 1, Len(chunks)) = chunks
                /\ Last(chunks').section_number = current_section.number
                /\ Last(chunks').metadata.page_start = current_section.page_start
           ELSE chunks' = chunks
        /\ current_section' # None
        /\ current_section'.number = Event.meta.number
        /\ current_section'.title = Event.meta.title
        /\ current_section'.page_start = page_num
        /\ buffer' = <<line>>

C7_SectionEvent == [][C7_Step]_vars

\* a section that had read a line was superseded by an accepted Section line
C7_Witness ==
    /\ impl = "hardened" /\ Len(chunks) >= 1 /\ Len(opened) = Len(chunks) + 1
    /\ Last(opened).body = <<>> /\ buffer = <<Last(opened).header>>
    /\ opened[Len(chunks)].body # <<>>

\* C8: a Text or Subsection line read while no section is open is
\* discarded: the buffer stays empty, and the context, the output and the
\* lines recorded for the sections are unchanged.
C8_Step ==
    (Reading({"text", "subsection"}) /\ current_section = None) =>
        /\ buffer' = buffer /\ buffer' = <<>>
        /\ context' = context
        /\ chunks' = chunks
        /\ opened' = opened /\ current_section' = None

C8_Discard == [][C8_Step]_vars

\* a line was discarded after a heading closed a section, and the chunks
\* returned do not hold it
C8_Witness ==
    /\ pc = "done" /\ Len(chunks) = 1 /\ Len(opened) = 1
    /\ opened[1].body = <<>>
    /\ current_chapter # None /\ opened[1].chapter = None
    /\ pages_read = 3 /\ rejected = 0 /\ buffer = <<>>

\* C9: at the end of input one final chunk, that of the open section, is
\* appended if and only if a section is open and its buffer is not empty;
\* otherwise the output is returned as it is.
C9_Step ==
    (pc = "page" /\ pc' = "done") =>
        IF current_section # None /\ buffer # <<>>
        THEN /\ Len(chunks') = Len(chunks) + 1
             /\ SubSeq(chunks', 1, Len(chunks)) = chunks
             /\ Last(chunks').section_number = current_section.number
        ELSE chunks' = chunks

C10_OneChunkPerSection ==
    (impl = "basic" /\ pc = "done") => Len(chunks) = Len(opened)

\* A Section candidate is being read by the hardened segmenter
Candidate == impl = "hardened" /\ Reading({"section"})

\* The candidate is skipped: no section is opened and nothing is flushed
Skipped ==
    /\ opened' = opened /\ current_section' = current_section
    /\ chunks' = chunks /\ prev_section_num' = prev_section_num
    /\ section_count' = section_count

\* The candidate opens a section and becomes the last accepted one
Accepted ==
    /\ Len(opened') = Len(opened) + 1
    /\ current_section'.number = Event.meta.number
    /\ prev_section_num' = current_num

\* C11 as stated: a Section candidate whose number is smaller than the last
\* accepted number opens no section whenever the last accepted number
\* exceeds 10.
C11_Step_PrevThreshold ==
    (Candidate /\ prev_section_num > 10 /\ current_num < prev_section_num)
        => opened' = opened /\ current_section' = current_section

C11_BackwardJump_PrevThreshold == [][C11_Step_PrevThreshold]_vars

\* C11, amended: a Section candidate whose number is smaller than the last
\* accepted number is skipped whenever its own number exceeds 10, and is
\* accepted when its own number is 10 or less.
C11_Step ==
    (Candidate /\ prev_section_num # NoneNum /\ current_num < prev_section_num)
        => IF current_num > 10 THEN Skipped ELSE Accepted

C11_BackwardJump == [][C11_Step]_vars

\* a candidate above 10 was skipped for going backwards
C11_Witness ==
    \E i \in 1..Len(skipped) :
        /\ skipped[i].num < skipped[i].prev /\ skipped[i].num > 10
        /\ rejected = Len(skipped)

\* C13: a Section candidate skipped by the progression check is treated as
\* ordinary text: if a section is open the line is appended to its buffer
\* (and so reaches the text of its chunk), and the run goes on.
C13_Step ==
    (Candidate /\ Suspicious /\ current_section # None)
        => buffer' = Append(buffer, line) /\ pc' # "raised"

C13_SkippedIsText == [][C13_Step]_vars

\* C12: once a section has been accepted, a Section candidate whose number
\* exceeds the last accepted number by more than 200 opens no section,
\* whatever the last accepted number is.
C12_Step ==
    (Candidate /\ prev_section_num # NoneNum
       /\ current_num > prev_section_num + 200)
        => opened' = opened /\ current_section' = current_section

C12_ForwardJump == [][C12_Step]_vars

\* The page number a chunk carries
PageOf(chunk) ==
    IF impl = "hardened" THEN chunk.metadata.page_start ELSE chunk.metadata.page

\* The document has pages, all well-shaped
WellShapedDoc ==
    HasPages /\ \A i \in 1..Len(parsed_doc.pages) : WellShaped(parsed_doc.pages[i])

\* The pages are given in non-decreasing page_number order
AscendingPages ==
    /\ WellShapedDoc
    /\ \A i, j \in 1..Len(parsed_doc.pages) :
           i < j => parsed_doc.pages[i].page_number <= parsed_doc.pages[j].page_number

\* C14: the pages are read in the order given (the page being read is the
\* next of the list, whatever its number); chunks are in the order their
\* sections were opened, and when the pages are given in non-decreasing
\* page_number order the page numbers of the chunks are non-decreasing.
C14_PageOrder ==
    /\ (WellShapedDoc /\ pages_read >= 1)
           => page_num = parsed_doc.pages[pages_read].page_number
    /\ \A i \in 1..Len(chunks) :
           /\ i <= Len(opened)
           /\ chunks[i].section_number = opened[i].section.number
    /\ AscendingPages =>
           \A i, j \in 1..Len(chunks) : i < j => PageOf(chunks[i]) <= PageOf(chunks[j])

\* two chunks of sections opened on pages 3 and 4, given in that order
C14_Witness ==
    /\ AscendingPages /\ pc = "done" /\ Len(returned) = 1
    /\ Len(chunks) >= 2
    /\ PageOf(chunks[1]) = 3 /\ PageOf(chunks[Len(chunks)]) = 4

\* C15: a second invocation on the same page list returns a chunk list equal
\* to the first; the second invocation starts from the same local state as
\* the first, nothing of the first surviving.
C15_Idempotent ==
    /\ Len(returned) = 2 => returned[1] = returned[2]
    /\ (Len(returned) = 1 /\ pc = "page" /\ pages_read = 0) => Locals

\* both invocations returned, the first having accepted and rejected
\* Section candidates and produced chunks
C15_Witness ==
    /\ Len(returned) = 2 /\ returned[1] # <<>>
    /\ prev_section_num # NoneNum /\ rejected > 0

\* The document of one page numbered 1 holding a short Section heading and
\* one line of body
KidnappingDoc ==
    [pages |-> <<[page_number |-> 1,
                  text |-> "354 Kidnapping\nA person who unlawfully..."]>>]

\* C16: the hardened segmenter, given the one page numbered 1 with text
\* "354 Kidnapping\nA person who unlawfully...", returns exactly one chunk:
\* section_number "354", section_title "Kidnapping", chunk_id "section_354",
\* an empty breadcrumb, the body line in its text.
C16_Kidnapping ==
    (impl = "hardened" /\ parsed_doc = KidnappingDoc /\ Len(returned) >= 1)
        => /\ Len(returned[1]) = 1
           /\ returned[1][1].section_number = "354"
           /\ returned[1][1].section_title = "Kidnapping"
           /\ returned[1][1].chunk_id = "section_354"
           /\ returned[1][1].breadcrumb = ""
           /\ returned[1][1].text = "A person who unlawfully..."

\* A line of a compilation date: a number, a month, a year, a schedule
DateLine == "15 January 2026 Schedule 1 Amendment"

\* The document is one page holding the date line alone
DateDoc ==
    /\ WellShapedDoc /\ Len(parsed_doc.pages) = 1
    /\ parsed_doc.pages[1].text = DateLine

C17_Step ==
    /\ (impl = "hardened" /\ pc = "line" /\ lines # <<>> /\ line = DateLine)
           => /\ kind = "text"
              /\ Len(opened') = Len(opened) /\ current_section' = current_section
              /\ chunks' = chunks
    /\ (impl = "hardened" /\ DateDoc /\ Len(returned') >= 1)
           => returned'[1] = <<>>

\* C17: the hardened segmenter classifies the line
\* "15 January 2026 Schedule 1 Amendment" as text: reading it opens no
\* section and emits no chunk, and a page holding it alone yields an empty
\* chunk list, whatever the page number.
C17_DateLine == [][C17_Step]_vars

\* the date line was read on page 4 and the empty list returned
C17_Witness ==
    /\ impl = "hardened" /\ DateDoc /\ parsed_doc.pages[1].page_number = 4
    /\ pc = "done" /\ pages_read = 1 /\ page_num = 4
    /\ returned = << <<>> >>

\* The row ends in a page number: white space, then one to three digits
TocRow(row) ==
    \E k \in 1..3 :
        /\ Len(row) > k
        /\ At(row, Len(row) - k) \in Space
        /\ \A i \in (Len(row) - k + 1)..Len(row) : At(row, i) \in Digit

\* At least 8 rows of the text end in a page number
TocLike(text) ==
    Cardinality({i \in 1..Len(split_on(text, "\n")) :
                     TocRow(split_on(text, "\n")[i])}) >= 8

\* The given pages that read as a table of contents
TocPages == {page \in GivenPages : TocLike(page.text)}

\* The page the loop is at is a table of contents
AtTocPage ==
    /\ HasPages /\ pages_read >= 1
    /\ parsed_doc.pages[pages_read] \in TocPages

C18_Step ==
    (impl = "hardened" /\ pages_read' = pages_read + 1 /\ AtTocPage')
        => /\ pc' = "page" /\ lines' = <<>>
           /\ UNCHANGED <<context, current_section, buffer, chunks, opened>>

\* C18: the hardened segmenter skips a page with at least 8 rows ending in a
\* 1 to 3 digit page number before any line of it is classified, whatever its
\* page_number: the step that takes the page leaves no line to classify and
\* changes neither the context, the open section, the chunks nor the
\* sections opened.
C18_TocSkipped == [][C18_Step]_vars

\* The loop is at a document without pages, or at a page that lacks
\* page_number or text
AtMalformed ==
    /\ pc = "page"
    /\ \/ ~HasPages
       \/ \E page \in NextPages : ~WellShaped(page)

C19_Step ==
    /\ AtMalformed => (pc' = "raised" /\ returned' = returned)
    /\ pc = "raised" => (pc' = "raised" /\ returned' = returned)
    /\ pc' = "raised" => returned' = <<>>

\* C19: when the document has no pages field, or the page the loop comes to
\* lacks page_number or text, either segmenter raises: the invocation ends
\* there and never returns a chunk list, whatever chunks the earlier pages
\* produced.
C19_InputShape == [][C19_Step]_vars

\* raised at the second page, a chunk of the first page in hand, nothing
\* returned
C19_Witness ==
    /\ pc = "raised" /\ HasPages /\ pages_read = 2
    /\ chunks # <<>> /\ returned = <<>>

\* An invocation starts on a well-shaped document
Starting == WellShapedDoc /\ pc = "page" /\ pages_read = 0

\* The invocation has returned a chunk list
Returned == pc = "done" /\ Len(returned) >= 1 /\ returned[Len(returned)] = chunks

\* C20: on a well-shaped page list either segmenter never raises, and every
\* invocation comes to return a chunk list, the empty list included.
C20_Terminates ==
    /\ [](WellShapedDoc => pc # "raised")
    /\ Starting ~> Returned

\* two well-shaped pages read, none of their lines in a section: the empty
\* list returned
C20_Witness ==
    /\ WellShapedDoc /\ Len(parsed_doc.pages) = 2
    /\ pages_read = 2 /\ page_num = 4
    /\ Returned /\ chunks = <<>> /\ opened = <<>>

\* The kinds whose acceptance conditions the stripped text meets, each
\* condition taken alone, in detect of line-debugger.py
Meets(text) ==
    IF Len(text) < 5 THEN {}
    ELSE {k \in {"chapter"} :
             /\ Search(text, CHAPTER).ok
             /\ Len(HeadingTitle(Search(text, CHAPTER))) > 10}
         \cup {k \in {"part"} :
             /\ Search(text, PART).ok
             /\ Len(HeadingTitle(Search(text, PART))) > 10}
         \cup {k \in {"division"} :
             /\ Search(text, DIVISION).ok
             /\ Len(HeadingTitle(Search(text, DIVISION))) > 10}
         \cup {k \in {"section"} : section_match(text) # None}
         \cup {k \in {"subsection"} :
             \/ Match(text, SUBSECTION(Digit)).ok
             \/ Match(text, SUBSECTION(Lower)).ok}

\* The same in detect_structure_type of chunker.py
MeetsStructure(text) ==
    {k \in {"chapter"} : Match(text, CHAPTER_PATTERN).ok}
    \cup {k \in {"part"} : Match(text, PART_PATTERN).ok}
    \cup {k \in {"division"} : Match(text, DIVISION_PATTERN).ok}
    \cup {k \in {"section"} : SECTION_PATTERN(text).ok}
    \cup {k \in {"subsection"} : Match(text, SUBSECTION_PATTERN).ok}

Priority == <<"chapter", "part", "division", "section", "subsection", "text">>

\* The first kind of the priority order among those met, "text" when none is
First(Met) ==
    Priority[CHOOSE i \in 1..6 :
                 /\ Priority[i] \in Met \cup {"text"}
                 /\ \A j \in 1..(i - 1) : Priority[j] \notin Met]

\* C21: the line being read gets one label, the first of Chapter, Part,
\* Division, Section, Subsection whose acceptance conditions it meets, and
\* Text when it meets none; so in both classifiers.
C21_Priority ==
    pc = "line" =>
        /\ Event.kind \in Range(Priority)
        /\ Event.kind = First(IF impl = "hardened" THEN Meets(strip(line))
                              ELSE MeetsStructure(strip(line)))

\* a line that meets the conditions of Chapter and of Section is being read
\* as a chapter heading
C21_Witness ==
    /\ impl = "hardened" /\ pc = "line"
    /\ {"chapter", "section"} \subseteq Meets(strip(line))
    /\ kind = "chapter"

CalendarMonths ==
    {"January", "February", "March", "April", "May", "June", "July", "August",
     "September", "October", "November", "December"}

RejectTokens ==
    {"Page", "Contents", "Compilation", "Registered", "Schedule", "Volume",
     "Includes"}

\* The acceptance gate: the first word of the title is neither a month nor
\* a reject token, and the number without its letter is in 1..10000
Gate(m) ==
    /\ split_words(m.title) # <<>>
    /\ split_words(m.title)[1] \notin CalendarMonths \cup RejectTokens
    /\ int(strip_upper(m.number)) \in 1..10000

\* The hardened segmenter is reading a line its classifier labels Section
LabelledSection == impl = "hardened" /\ pc = "line" /\ kind = "section"

\* The line being read matches the constitution-style section pattern
ConstitutionStyle == Match(strip(line), SECTION_CONSTITUTION).ok

\* C22 as stated: every line labelled Section, through either section
\* pattern, has passed the acceptance gate.
C22_GateEitherPattern == LabelledSection => Gate(meta)

\* C22: every line labelled Section through the code-style pattern has
\* passed the acceptance gate; a line that matches the constitution-style
\* pattern, and is no heading, is labelled Section without the gate.
C22_GateCodePattern ==
    /\ (LabelledSection /\ ~ConstitutionStyle) => Gate(meta)
    /\ (impl = "hardened" /\ pc = "line" /\ ConstitutionStyle
          /\ Meets(strip(line)) \cap {"chapter", "part", "division"} = {})
           => kind = "section"

\* a code-style line is being read as a Section, a line with a month as its
\* first title word having been read as text on the page before
C22_Witness ==
    /\ LabelledSection /\ ~ConstitutionStyle /\ Gate(meta)
    /\ pages_read = 2
    /\ parsed_doc.pages[1].text = "15 January sittings of parliament\n"
    /\ opened = <<>>

\* C23: the doc_type hint given to the hardened segmenter selects the
\* section pattern of its classifier: some line is classified differently
\* by detect(line, "constitution") and by detect(line, "code").
C23_HintSelects ==
    impl = "hardened" =>
        \E ld \in DOMAIN Detected :
            Detected[ld[1], "constitution"] # Detected[ld[1], "code"]

\* Both invocations are in their second run, each between two of its lines
\* with a section opened
Interleaved ==
    /\ other # None
    /\ Len(returned) = 1 /\ pc = "line" /\ opened # <<>>
    /\ Len(other.returned) = 1 /\ other.pc = "line" /\ other.opened # <<>>

\* C24: two invocations on two documents, taking turns between lines in any
\* order, each return the chunk list they return when run alone.
C24_Isolation ==
    /\ Len(returned) = 2 => returned[2] = returned[1]
    /\ (other # None /\ Len(other.returned) = 2)
           => other.returned[2] = other.returned[1]

\* both hardened invocations are in their second run, each between two
\* of its lines, each with its own last accepted section number
C24_Witness ==
    /\ Interleaved
    /\ impl = "hardened" /\ other.impl = "hardened"
    /\ prev_section_num = 354 /\ other.prev_section_num = 7

\* The blobs of the parsed container that are to have a chunks blob
Json == {name \in DOMAIN parsed_container : endswith(name, ".json")}

\* Every .json blob of the parsed container has a chunks blob of its name
AllChunked == Json \subseteq DOMAIN chunks_container

C25_Step ==
    /\ invoked' # invoked =>
           /\ invoked' = Append(invoked, blob_name)
           /\ blob_name \in Json
           /\ blob_name \notin Range(invoked)
           /\ blob_name \notin DOMAIN chunks_container
    /\ \A name \in DOMAIN chunks_container :
           /\ name \in DOMAIN chunks_container'
           /\ chunks_container'[name] = chunks_container[name]

Rendered(kind_name, slot) == kind_name \o " " \o slot.number \o ": " \o slot.title

\* The breadcrumb of a context, case by case
Breadcrumb(chapter, part, division) ==
    IF chapter # None /\ part # None /\ division # None
    THEN Rendered("Chapter", chapter) \o " > " \o Rendered("Part", part)
         \o " > " \o Rendered("Division", division)
    ELSE IF chapter # None /\ part # None
    THEN Rendered("Chapter", chapter) \o " > " \o Rendered("Part", part)
    ELSE IF chapter # None /\ division # None
    THEN Rendered("Chapter", chapter) \o " > " \o Rendered("Division", division)
    ELSE IF part # None /\ division # None
    THEN Rendered("Part", part) \o " > " \o Rendered("Division", division)
    ELSE IF chapter # None THEN Rendered("Chapter", chapter)
    ELSE IF part # None THEN Rendered("Part", part)
    ELSE IF division # None THEN Rendered("Division", division)
    ELSE ""

\* C26: the breadcrumb of a constructed chunk lists the context slots that
\* are set, in the order Chapter, Part, Division, each rendered as
\* "<Kind> <number>: <title>" and joined by " > "; so in the three variants
\* (line-debugger.py, chunker.py, test-chunker.py). With chapter 33 and part 6
\* set and no division it is
\* "Chapter 33: Offences against liberty > Part 6: Offences relating to property";
\* with nothing set it is "".
C26_BreadcrumbFormat ==
    pc = "done" =>
        /\ chunks[1].breadcrumb =
               Breadcrumb(current_chapter, current_part, current_division)
        /\ (current_chapter # None /\ current_part # None /\ current_division = None)
               => chunks[1].breadcrumb =
                      "Chapter 33: Offences against liberty > Part 6: Offences relating to property"
        /\ context = <<None, None, None>> => chunks[1].breadcrumb = ""

\* text begins with the header of the section: its number, a separator of
\* periods and white space, its title
BeginsWithHeader(text, section) ==
    /\ startswith(text, section.number)
    /\ RunLen(text, Len(section.number) + 1, Space \cup {"."}) >= 1
    /\ startswith(From(text, Len(section.number) + 1
                             + RunLen(text, Len(section.number) + 1, Space \cup {"."})),
                  section.title)

\* The first line of the buffer is a header the section patterns take for
\* the section
HeaderAccepted ==
    /\ section_match(buffer[1]) # None
    /\ section_match(buffer[1]).number = current_section.number
    /\ section_match(buffer[1]).title = current_section.title

\* C27: the text of a chunk the hardened segmenter constructs does not begin
\* with the header of its section, whatever spelling of the header the
\* section patterns took.
C27_HeaderRemoved ==
    (impl = "hardened" /\ pc = "done" /\ HeaderAccepted)
        => ~BeginsWithHeader(chunks[1].text, current_section)

\* The hardened segmenter is reading a line its classifier labels Chapter,
\* Part or Division
LabelledHeading ==
    impl = "hardened" /\ pc = "line" /\ kind \in {"chapter", "part", "division"}

C28_Step ==
    /\ LabelledHeading =>
           /\ Len(meta.title) >= 10
           /\ At(meta.title, 1) \in Upper
    /\ (impl = "hardened" /\ pc = "line" /\ ~LabelledHeading /\ kind # "section")
           => current_section' = current_section /\ chunks' = chunks

\* C28: the hardened classifier labels a line Chapter, Part or Division only
\* if the title after the keyword and the numeral starts with a capital
\* letter and has at least 10 characters; any other line that is no Section
\* leaves the open section open.
C28_HeadingTitle == [][C28_Step]_vars

C29_Step ==
    /\ Len(chunks') \in {Len(chunks), Len(chunks) + 1}
    /\ SubSeq(chunks', 1, Len(chunks)) = chunks

\* C29: every step of either segmenter, the end of the input included,
\* leaves the chunks of the list as they are and in their places, and
\* appends at most one.
C29_AppendOnly == [][C29_Step]_vars

\* the basic segmenter has returned three chunks, appended one by one
C29_Witness == impl = "basic" /\ pc = "done" /\ Len(chunks) = 3

C30_Step ==
    /\ (Candidate /\ Suspicious) =>
           /\ opened' = opened /\ current_section' = current_section
           /\ Len(buffer') >= Len(buffer)
           /\ chunks' = chunks
           /\ UNCHANGED <<context, prev_section_num>>
           /\ lines' = Tail(lines) /\ pc' \in {"line", "page"}
    /\ prev_section_num' # prev_section_num =>
           /\ Candidate /\ ~Suspicious
           /\ prev_section_num' = current_num

\* C30: a rejected Section candidate opens no section, flushes and closes
\* nothing, appends no chunk and leaves the context and the last accepted
\* number as they are, and the next line is read; the last accepted number
\* changes only when a candidate is accepted, to the number of that
\* candidate.
C30_RejectFrame == [][C30_Step]_vars

\* a candidate was rejected under a chapter with a section open: the section
\* and the last accepted number are those of before
C30_Witness ==
    /\ skipped # <<>> /\ pc = "line"
    /\ current_chapter # None
    /\ current_section # None /\ current_section = Last(skipped).section
    /\ prev_section_num = Last(skipped).prev

\* p and c are the numeric values of an accepted section and of the next one
Progresses(p, c) == p >= 1 => (c <= p + 200 /\ (c >= p \/ c <= 10))

\* C32: in the hardened segmenter, for every two consecutive accepted sections
\* of numeric values p >= 1 and c, c <= p + 200, and c >= p or c <= 10; the
\* same holds of every two consecutive chunks of the chunk list, whose section
\* numbers so decrease only by restarting at a value of at most 10.
C32_Progression ==
    impl = "hardened" =>
        /\ \A i \in 1..(Len(opened) - 1) :
               Progresses(int(strip_upper(opened[i].section.number)),
                          int(strip_upper(opened[i + 1].section.number)))
        /\ \A i \in 1..(Len(chunks) - 1) :
               Progresses(int(strip_upper(chunks[i].section_number)),
                          int(strip_upper(chunks[i + 1].section_number)))

\* the hardened segmenter has returned the chunks of 354 and of 7, a restart,
\* after skipping 353, a step backwards
C32_Witness ==
    /\ impl = "hardened" /\ pc = "done"
    /\ Len(chunks) = 2
    /\ chunks[1].section_number = "354" /\ chunks[2].section_number = "7"
    /\ \E i \in 1..Len(skipped) : skipped[i].num = 353 /\ skipped[i].prev = 354

\* The hardened segmenter skips the page it reads in this step
Skipping ==
    /\ impl = "hardened"
    /\ \E page \in NextPages : WellShaped(page) /\ chunk_skip_page(page)

C33_Step ==
    Skipping => /\ page_num' <= 3
                /\ page_num < page_num' => current_section = None

\* C33: the hardened segmenter skips no page numbered above 3, and, the pages
\* being numbered upwards, skips no page while a section is open: the body
\* lines of a section that continues onto the following page are accumulated
\* into the chunk of that section.
C33_NoSkipWhileOpen == [][C33_Step]_vars

\* C31: in the header-buffering segmenters (line-debugger.py, debug_structure.py,
\* test-chunker.py), at every point between two line events, a section is open
\* if and only if the buffer is not empty; when a section is open it is the
\* section opened last, and the buffer is the header line of that section
\* followed by the lines read since; and every section that was opened and is
\* open no more has its chunk, so that no `and buffer` guard has suppressed one.
C31_HeaderBuffered ==
    /\ current_section # None <=> buffer # <<>>
    /\ current_section # None =>
           /\ opened # <<>>
           /\ opened[Len(opened)].section = current_section
           /\ buffer[1] = opened[Len(opened)].header
           /\ buffer = <<opened[Len(opened)].header>> \o opened[Len(opened)].body
    /\ Len(opened) = Len(chunks) + (IF current_section # None /\ pc # "done" THEN 1 ELSE 0)

\* between two lines of a page, the segmenter of debug_structure.py or of
\* test-chunker.py holds an open section whose buffer is its header line and a
\* line read since, after the chunk of an earlier section
C31_Witness ==
    /\ impl \in {"debug", "inline"} /\ pc = "line"
    /\ current_section # None
    /\ Len(buffer) = 2 /\ buffer[1] = opened[Len(opened)].header
    /\ Len(chunks) >= 1

====
